---- MODULE Spec2Model ----
(***************************************************************************)
(* A model of the file conversion service: the in-memory task store        *)
(* (TaskManager), the conversion pipeline of ConversionService             *)
(* (createConversionTask / convertSynchronously / processTask) with its    *)
(* legacy-office pre-pass, PDF staging, converter invocation and nested    *)
(* cleanup, and the HTTP routes in front of them (POST /convert,           *)
(* GET /tasks/:taskId, GET /download/:taskId).                             *)
(*                                                                         *)
(* Scheduling follows the Node.js event loop: code between two awaited     *)
(* I/O operations runs to completion.  A task whose pc is one of           *)
(* RunningPcs is executing synchronous code (or promise continuations);    *)
(* new requests and I/O completions are taken only when no task is         *)
(* running (Idle).                                                         *)
(***************************************************************************)
EXTENDS Integers, Sequences, FiniteSets, TLC

\* Number of submissions in one behaviour.
MaxTasks == 2

TaskIds == 1..MaxTasks

\* How far the clock advances in one behaviour.
MaxClock == 2

\* A JSON number in a request body: truthy, but not a string.
JsNumber == "<number 5>"

IsString(v) == v # JsNumber

SourceFormats == {"markdown", "doc", "pdf"}

TargetFormats == {"html", JsNumber}

Modes == {"async", "sync"}

VARIABLES
    tasks,                \* TaskManager.tasks : Map<string, ConversionTask>
    nodeEnvTest,          \* process.env.NODE_ENV === 'test'
    sofficePath,          \* ConversionService.sofficePath is set
    sofficeAvailability,  \* ConversionService.sofficeAvailability
    pc,                   \* per request: where its processTask stands
    req,                  \* per request: the ConversionRequest and entry point
    local,                \* per request: local variables of processTask
    files,                \* per request: the files the pipeline owns on disk
    spawned,              \* per request: executables spawned, in order
    releaseLog,           \* per request: release actions started / ended, in order
    statusLog,            \* per request: statuses written to the store, in order
    call,                 \* per request: how the submission call ended
    returned,             \* per request: the task object the submission call returned
    now,                  \* the clock new Date() reads
    outcomes,             \* per request: what each awaited operation answered, in order
    lastCall              \* the last call a client made directly, or the child
                          \* process of the converter under observation

vars == <<tasks, nodeEnvTest, sofficePath, sofficeAvailability, pc, req, local,
          files, spawned, releaseLog, statusLog, call, returned, outcomes, lastCall, now>>

-----------------------------------------------------------------------------
(* TaskManager *)

\* createTask: a fresh pending record, stamped with the time of the call,
\* is stored under payload.id with Map.set.
createTask(store, payload) ==
    (payload.id :> ([status |-> "pending", createdAt |-> now, updatedAt |-> now]
                    @@ payload)) @@ store

\* An updateStatus without the test for an unknown id: it upserts.
updateStatus_Upsert(store, id, status, updates) ==
    (id :> ([status |-> status, updatedAt |-> now] @@ updates @@
            (IF id \in DOMAIN store THEN store[id] ELSE <<>>))) @@ store

\* An updateStatus that stamps createdAt as well.
updateStatus_ResetsCreatedAt(store, id, status, updates) ==
    IF id \notin DOMAIN store
    THEN store
    ELSE (id :> ([status |-> status, updatedAt |-> now, createdAt |-> now]
                 @@ updates @@ store[id])) @@ store

\* An updateStatus that leaves updatedAt as it was.
updateStatus_StaleUpdatedAt(store, id, status, updates) ==
    IF id \notin DOMAIN store
    THEN store
    ELSE (id :> ([status |-> status] @@ updates @@ store[id])) @@ store

\* updateStatus: unknown id -> undefined and no change; otherwise the record
\* is replaced by {...task, ...updates, status, updatedAt: new Date()}.
updateStatus(store, id, status, updates) ==
    IF id \notin DOMAIN store
    THEN store
    ELSE (id :> ([status |-> status, updatedAt |-> now] @@ updates @@ store[id])) @@ store

\* An attachResult that sets the status and drops the path.
attachResult_WithoutPath(store, id, outputPath) ==
    updateStatus(store, id, "completed", <<>>)

attachResult(store, id, outputPath) ==
    updateStatus(store, id, "completed", [outputPath |-> outputPath])

attachError(store, id, error) ==
    updateStatus(store, id, "failed", [error |-> error])

\* A processTask that forgets to mark the task as processing.
setProcessing_Skipped(store, id) == store

setProcessing(store, id) ==
    updateStatus(store, id, "processing", <<>>)

\* A createTask that hands out the record as a later reader of the store
\* finds it (an updateStatus that writes into the stored object).
createTaskReturns_LiveRecord(store, payload) ==
    [status |-> "processing", createdAt |-> now, updatedAt |-> now] @@ payload

\* createTask: return task (line 23), the object it stored; updateStatus
\* replaces the stored object by a copy and never writes into it.
createTaskReturns(store, payload) == createTask(store, payload)[payload.id]

\* getTask(taskId) on a store: the record now stored under the id.
getTaskResult(store, id) == store[id]

\* getTask: the stored record, or undefined.
HasTask(id) == id \in DOMAIN tasks

getTask(id) == tasks[id]

\* What updateStatus (and the three conveniences over it) returns.
updateStatusReturns(store, id) ==
    IF id \notin DOMAIN store THEN "undefined" ELSE "task"

\* createTask has no test for an id that is already registered.
createTaskThrows(store, payload) == FALSE

Statuses == {"pending", "processing", "completed", "failed"}

-----------------------------------------------------------------------------
(* ConversionService: pure helpers *)

\* String.prototype.toLowerCase on the format names used here.
ToLowerCase(s) ==
    CASE s = "PDF" -> "pdf"
      [] s = "DOC" -> "doc"
      [] s = "HTML" -> "html"
      [] s = ".HTML" -> ".html"
      [] s = "MD" -> "md"
      [] s = "Markdown" -> "markdown"
      [] s = "TXT" -> "txt"
      [] s = "HTM" -> "htm"
      [] s = "DOCX" -> "docx"
      [] s = "Plain" -> "plain"
      [] OTHER -> s

\* String.prototype.trim on the format names used here.
Trim(s) ==
    CASE s = " doc " -> "doc"
      [] s = " pdf " -> "pdf"
      [] s = " htm " -> "htm"
      [] OTHER -> s

\* A mapping that sends doc to LibreOffice's PDF export.
getLegacyOfficeMapping_DocToPdf(format) ==
    LET normalized == ToLowerCase(Trim(format))
    IN  CASE normalized = "doc" -> "pdf"
          [] normalized = "ppt" -> "pptx"
          [] normalized = "xls" -> "xlsx"
          [] OTHER -> "undefined"

\* getLegacyOfficeMapping: the target extension, or "undefined".
getLegacyOfficeMapping(format) ==
    LET normalized == ToLowerCase(Trim(format))
    IN  CASE normalized = "doc" -> "docx"
          [] normalized = "ppt" -> "pptx"
          [] normalized = "xls" -> "xlsx"
          [] OTHER -> "undefined"

\* The shortcut test that is commented out in shouldUseMarkitdown (290-291).
shouldUseMarkitdown_Markdown(targetFormat) ==
    ToLowerCase(targetFormat) \in {"markdown", "md"}

\* shouldUseMarkitdown: hard-wired off.
shouldUseMarkitdown(targetFormat) == FALSE

\* resolveStrategy
resolveStrategy(testMode, targetFormat) ==
    IF testMode
    THEN "simulation"
    ELSE IF shouldUseMarkitdown(targetFormat) THEN "markitdown" ELSE "pandoc"

\* normalizeExtension calls format.replace: a TypeError unless format is a string.
normalizeExtensionThrows(format) == ~IsString(format)

\* format.replace(/^\./, '') on the format names used here.
StripLeadingDot(s) ==
    CASE s = ".HTML" -> "HTML"
      [] s = ".html" -> "html"
      [] s = ".md" -> "md"
      [] OTHER -> s

\* A normalizeExtension that forgets toLowerCase.
normalizeExtension_CaseSensitive(format) ==
    LET normalized == StripLeadingDot(format)
    IN  CASE normalized \in {"markdown", "md"} -> "md"
          [] normalized \in {"text", "txt", "plain"} -> "txt"
          [] OTHER -> normalized

normalizeExtension(format) ==
    LET normalized == ToLowerCase(StripLeadingDot(format))
    IN  CASE normalized \in {"markdown", "md"} -> "md"
          [] normalized \in {"text", "txt", "plain"} -> "txt"
          [] OTHER -> normalized

\* path.parse(filename).name on the file names used here: the last path
\* component without its last extension.
ParsedName(filename) ==
    CASE filename = "sample.md" -> "sample"
      [] filename = "dir/sample.md" -> "sample"
      [] filename = "archive.tar.gz" -> "archive.tar"
      [] OTHER -> filename

buildOutputFilenameThrows(targetFormat) == normalizeExtensionThrows(targetFormat)

\* A file name built by a template string `${name}${sep}${id}...`: the
\* record stands for the string name + "-" + id + sep + tail, the id being
\* a UUID that no caller-supplied name or format contains.
buildOutputFilename(originalFilename, taskId, targetFormat) ==
    [name |-> ParsedName(originalFilename), id |-> taskId, sep |-> ".",
     tail |-> normalizeExtension(targetFormat)]

\* A string split at the path separator, on the strings used here.
SplitPath(s) ==
    CASE s = "x/../shared.md" -> <<"x", "..", "shared.md">>
      [] s = "x/../../escaped.md" -> <<"x", "..", "..", "escaped.md">>
      [] OTHER -> <<s>>

\* The path components of a built file name: a separator can only come
\* from its tail.  Every component is a tuple.
FileNameSegments(fn) ==
    LET parts == SplitPath(fn.tail)
    IN  << <<fn.name, fn.id, fn.sep, parts[1]>> >> \o
        [i \in 1..(Len(parts) - 1) |-> <<parts[i + 1]>>]

\* path.normalize of an absolute path: ".." removes the component before it.
RECURSIVE NormalizeSegments(_, _)
NormalizeSegments(done, rest) ==
    IF rest = <<>>
    THEN done
    ELSE IF Head(rest) = <<"..">>
         THEN NormalizeSegments(IF done = <<>> THEN done
                                ELSE SubSeq(done, 1, Len(done) - 1), Tail(rest))
         ELSE NormalizeSegments(Append(done, Head(rest)), Tail(rest))

\* CONVERTED_DIR, which createApp passes as outputDirectory.
outputDirectory == << <<"storage">>, <<"converted">> >>

\* path.join(this.outputDirectory, <a built file name>)
pathJoin(directory, fn) == NormalizeSegments(<<>>, directory \o FileNameSegments(fn))

\* The number of leading components two absolute paths share.
RECURSIVE CommonLength(_, _)
CommonLength(a, b) ==
    IF a = <<>> \/ b = <<>> \/ Head(a) # Head(b)
    THEN 0
    ELSE 1 + CommonLength(Tail(a), Tail(b))

\* path.relative(from, to) for absolute paths.
pathRelative(from, to) ==
    LET k == CommonLength(from, to)
    IN  [i \in 1..(Len(from) - k) |-> <<"..">>] \o SubSeq(to, k + 1, Len(to))

\* processTask, lines 112-113.
OutputPath(originalFilename, taskId, targetFormat) ==
    pathJoin(outputDirectory, buildOutputFilename(originalFilename, taskId, targetFormat))

\* buildIntermediateMarkdownPath: `${parsed.name}-${taskId}-intermediate.md`
buildIntermediateMarkdownPath(originalFilename, taskId) ==
    pathJoin(outputDirectory, [name |-> ParsedName(originalFilename), id |-> taskId,
                               sep |-> "-", tail |-> "intermediate.md"])

\* fs.promises.mkdtemp(path.join(outputDirectory, 'soffice-')): the system
\* appends characters that make the directory new; the request slot stands
\* for them.
mkdtemp(t) == outputDirectory \o << <<"soffice-", t>> >>

\* prepareSourceForPandoc takes its PDF branch on this test.
IsPdf(sourceFormat) == ToLowerCase(sourceFormat) = "pdf"

\* A normalizeFormatForPandoc without the htm alias.
normalizeFormatForPandoc_NoHtmAlias(format) ==
    LET normalized == ToLowerCase(Trim(format))
    IN  CASE normalized \in {"markdown", "md"} -> "markdown"
          [] normalized \in {"text", "txt", "plain"} -> "plain"
          [] OTHER -> normalized

\* normalizeFormatForPandoc: format.trim().toLowerCase(), then the aliases.
normalizeFormatForPandoc(format) ==
    LET normalized == ToLowerCase(Trim(format))
    IN  CASE normalized \in {"markdown", "md"} -> "markdown"
          [] normalized \in {"text", "txt", "plain"} -> "plain"
          [] normalized = "htm" -> "html"
          [] OTHER -> normalized

\* runPandoc: the argument vector handed to spawn(this.pandocPath, args).
PandocArgs(sourceFormat, sourcePath, targetFormat, outputPath) ==
    <<"--from", normalizeFormatForPandoc(sourceFormat),
      "--to", normalizeFormatForPandoc(targetFormat),
      sourcePath, "--output", outputPath>>

\* What the invoker step hands to the process it spawns; nothing is
\* spawned by the simulation.
InvokerArgs(strategy, sourceFormat, sourcePath, targetFormat, outputPath) ==
    IF strategy = "pandoc"
    THEN PandocArgs(sourceFormat, sourcePath, targetFormat, outputPath)
    ELSE <<>>

\* path.join(tempDir, convertedFile): the file readdir found in the scratch
\* directory whose name ends with "." + mapping.targetExtension.
ConvertedPath(tempDir, targetExtension) ==
    tempDir \o << <<"converted file", ".", targetExtension>> >>

-----------------------------------------------------------------------------
(* The pipeline's control points *)

\* processTask as it would be with an await ahead of setProcessing: the
\* event loop could run other requests while the task is still pending.
RunningPcs_AwaitBeforeSetProcessing ==
    {"prepareLegacyOfficeSource", "resolveStrategy",
     "preparationCleanup", "legacyCleanup", "attach"}

\* Synchronous code is executing (or a promise continuation is queued).
RunningPcs == {"processTask", "prepareLegacyOfficeSource", "resolveStrategy",
               "preparationCleanup", "legacyCleanup", "attach"}

\* An awaited filesystem operation or child process is outstanding.
BlockedPcs == {"access", "mkdtemp", "soffice", "readdir", "rmOnFailure",
               "extractPdf", "writeIntermediate", "copyFile", "copyFallback",
               "markitdown", "pandoc", "unlink", "rm"}

\* "unborn": no request yet; "notStarted": the submission failed before a
\* task was created; "resolved" / "rejected": the processTask promise settled.
EndedPcs == {"notStarted", "resolved", "rejected"}

Idle == \A t \in TaskIds : pc[t] \notin RunningPcs

\* outputFilename (line 112) before it is built.
NoFilename == [name |-> "none", id |-> 0, sep |-> "none", tail |-> "none"]

\* available: what isSofficeAvailable answered (line 180); outputPath (113),
\* intermediatePath (300) and tempDir (185) are unset while empty; args are
\* the arguments of the converter process (358-366), empty while none runs.
NoLocal == [legacy |-> "none", strategy |-> "none", prep |-> "none", error |-> "none",
            available |-> "none", outputFilename |-> NoFilename, outputPath |-> <<>>,
            intermediatePath |-> <<>>, tempDir |-> <<>>, args |-> <<>>]

\* The request slot before a request was made.
NoRequest == [sourcePath |-> <<>>, sourceRelativePath |-> <<>>, sourceFilename |-> "none", sourceFormat |-> "none",
              targetFormat |-> "none", mode |-> "none"]

\* scratch and intermediate: "absent", "present" or "undeletable"; output:
\* "absent" or what the file holds.
NoFiles == [scratch |-> "absent", intermediate |-> "absent", output |-> "absent"]

\* The source format the stages after the legacy pre-pass work on (effectiveTask).
EffectiveSourceFormat(t) ==
    IF local[t].legacy = "scratch"
    THEN getLegacyOfficeMapping(req[t].sourceFormat)
    ELSE req[t].sourceFormat

\* The source path the stages after the legacy pre-pass work on (effectiveTask).
EffectiveSourcePath(t) ==
    IF local[t].legacy = "scratch"
    THEN ConvertedPath(local[t].tempDir, getLegacyOfficeMapping(req[t].sourceFormat))
    ELSE req[t].sourcePath

\* What the file read by the invoker holds (preparation.sourcePath in
\* simulation mode: the pass-through source or LibreOffice's file).
PreparedSourceContent(t) ==
    IF local[t].legacy = "scratch" THEN "LibreOffice output" ELSE "source bytes"

\* readFile(sourcePath, 'utf8') then writeFile(..., 'utf8') (lines 349-350):
\* exact for text, lossy for bytes that are not valid UTF-8.
Utf8RoundTrip(content, sourceFormat) ==
    IF ToLowerCase(sourceFormat) = "markdown"
    THEN content
    ELSE "UTF-8 re-encoding of " \o content

\* The submission call has not returned a task.
NothingReturned == [status |-> "none"]

\* No direct call on the TaskManager was made yet.
NoCall == [op |-> "none"]

Init ==
    /\ tasks = <<>>
    /\ nodeEnvTest \in BOOLEAN
    /\ sofficePath \in BOOLEAN
    /\ sofficeAvailability = "undefined"
    /\ pc = [t \in TaskIds |-> "unborn"]
    /\ req = [t \in TaskIds |-> NoRequest]
    /\ local = [t \in TaskIds |-> NoLocal]
    /\ files = [t \in TaskIds |-> NoFiles]
    /\ spawned = [t \in TaskIds |-> <<>>]
    /\ releaseLog = [t \in TaskIds |-> <<>>]
    /\ statusLog = [t \in TaskIds |-> <<>>]
    /\ call = [t \in TaskIds |-> "none"]
    /\ returned = [t \in TaskIds |-> NothingReturned]
    /\ now = 0
    /\ outcomes = [t \in TaskIds |-> <<>>]
    /\ lastCall = NoCall

-----------------------------------------------------------------------------
(* Outcomes the environment decides *)

\* A child process settles its promise: close with code 0, close with another
\* code, or an error event with code ENOENT.
SpawnOutcomes == {"exit0", "exitNonZero", "ENOENT"}

\* readdir of the scratch directory: a file with the expected suffix is
\* there, none is, or readdir itself fails.
ReaddirOutcomes == {"found", "notFound", "error"}

\* writeFile of the intermediate markdown: written; failed before the file
\* was created; failed after the file was created.
WriteOutcomes == {"written", "failedNoFile", "failedPartial"}

\* The state of a path after rm / unlink was attempted on it (failures are swallowed).
Removed(ok) == IF ok THEN "absent" ELSE "undeletable"

\* How an awaited promise settled.
Settled(ok) == IF ok THEN "fulfilled" ELSE "rejected"

-----------------------------------------------------------------------------
(* Where control goes next in processTask and prepareLegacyOfficeSource *)

\* The preparer's cleanup called after the invoker, outside a finally block.
AfterInvoker_OnlyOnSuccess(ok) ==
    IF ok THEN "preparationCleanup" ELSE "legacyCleanup"

\* try { invoke } finally { await preparation.cleanup() }  (lines 127-141)
AfterInvoker(ok) == "preparationCleanup"

\* A processTask that runs the converter although the preparer threw.
AfterPrepareSourceFailure_Invokes == "pandoc"

\* A processTask that prepares the source again when the preparer threw.
AfterPrepareSourceFailure_Retry == "resolveStrategy"

\* prepareSource threw: preparation was never bound, the outer finally runs (142-144).
AfterPrepareSourceFailure == "legacyCleanup"

\* finally { await legacyPreparation.cleanup() }  (lines 142-144)
AfterPreparationCleanup == "legacyCleanup"

\* A simulateConversion that swallows the copy's failure.
OnCopyFileFailure_NoFallback == "preparationCleanup"

\* simulateConversion: copyFile(...).catch(async () => { readFile; writeFile })  (348-351)
OnCopyFileFailure == "copyFallback"

\* A prepareLegacyOfficeSource that rethrows without removing the directory.
OnLegacyConversionFailure_NoRemoval == "attach"

\* prepareLegacyOfficeSource: catch { await rm(tempDir); throw }  (lines 216-219)
OnLegacyConversionFailure == "rmOnFailure"

\* A prepareLegacyOfficeSource that goes on without the executable.
SkipsLibreOffice_Never(available) == FALSE

\* prepareLegacyOfficeSource: if (!available) return pass-through  (lines 180-183)
SkipsLibreOffice(available) == available = "false"

\* The invoker step of processTask (lines 128-138): what is awaited, and
\* which executable it spawns.
InvokerPc(strategy) ==
    CASE strategy = "simulation" -> "copyFile"
      [] strategy = "markitdown" -> "markitdown"
      [] OTHER -> "pandoc"

InvokerSpawns(strategy) ==
    CASE strategy = "simulation" -> <<>>
      [] strategy = "markitdown" -> <<"markitdown">>
      [] OTHER -> <<"pandoc">>

-----------------------------------------------------------------------------
(* Submission *)

\* A convertSynchronously that does not await processTask.
ReturnsBeforeProcessTask_Always(mode) == TRUE

\* createConversionTask: void this.processTask(task); return task (82-83);
\* convertSynchronously: await this.processTask(task) (99).
ReturnsBeforeProcessTask(mode) == mode = "async"

\* A POST /convert/sync that answers 200 whatever the task's status is.
SyncResponse_Always200(task) ==
    [status |-> 200, message |-> "Conversion completed successfully."]

\* POST /convert/sync once convertSynchronously has returned a task: the
\* status and message of the answer, 500 with the task's error when it
\* failed, 200 otherwise (lines 222-233).
SyncResponse(task) ==
    IF task.status = "failed"
    THEN [status |-> 500,
          message |-> IF "error" \in DOMAIN task THEN task.error ELSE "Conversion failed."]
    ELSE [status |-> 200, message |-> "Conversion completed successfully."]

\* The body createConversionTask and convertSynchronously share: await
\* ensureDirectories(), generate an id, createTask, then start processTask.
\* The request slot t stands for the fresh UUID.
Register(t, r, mode, mkdirOk) ==
    /\ Idle
    /\ pc[t] = "unborn"
    /\ \A u \in TaskIds : u < t => pc[u] # "unborn"
    /\ req' = [req EXCEPT ![t] = [mode |-> mode] @@ r]
    /\ IF mkdirOk
       THEN /\ tasks' = createTask(tasks, [id |-> t] @@ r)
            /\ statusLog' = [statusLog EXCEPT ![t] = Append(@, tasks'[t].status)]
            /\ pc' = [pc EXCEPT ![t] = "processTask"]
            /\ call' = [call EXCEPT ![t] =
                           IF ReturnsBeforeProcessTask(mode) THEN "returned" ELSE "none"]
            /\ returned' = [returned EXCEPT ![t] =
                               IF ReturnsBeforeProcessTask(mode)
                               THEN createTaskReturns(tasks, [id |-> t] @@ r)
                               ELSE @]
       ELSE /\ pc' = [pc EXCEPT ![t] = "notStarted"]
            /\ call' = [call EXCEPT ![t] = "rejected"]
            /\ UNCHANGED <<tasks, statusLog, returned>>
    /\ outcomes' = [outcomes EXCEPT ![t] = Append(@, <<"mkdir", Settled(mkdirOk)>>)]
    /\ UNCHANGED <<nodeEnvTest, sofficePath, sofficeAvailability, local, files,
                   spawned, releaseLog, now>>

\* The uploaded file of the requests: storage/uploads/sample.md.
SamplePath == << <<"storage">>, <<"uploads">>, <<"sample.md">> >>

\* The same file relative to the storage root.
SampleRelativePath == << <<"uploads">>, <<"sample.md">> >>

SampleFilename == "sample.md"

Requests == [sourcePath : {SamplePath}, sourceRelativePath : {SampleRelativePath},
             sourceFilename : {SampleFilename},
             sourceFormat : SourceFormats, targetFormat : TargetFormats]

\* createConversionTask: void this.processTask(task); return task
CreateConversionTask(t) ==
    /\ \E r \in Requests, mkdirOk \in BOOLEAN : Register(t, r, "async", mkdirOk)
    /\ UNCHANGED lastCall

\* convertSynchronously: await this.processTask(task); return getTask(taskId)
ConvertSynchronously(t) ==
    /\ \E r \in Requests, mkdirOk \in BOOLEAN : Register(t, r, "sync", mkdirOk)
    /\ UNCHANGED lastCall

-----------------------------------------------------------------------------
(* processTask *)

\* Lines 110-113: setProcessing, then the output path is computed outside
\* the try block: an exception here rejects the processTask promise.
ProcessTaskStart(t) ==
    /\ pc[t] = "processTask"
    /\ tasks' = setProcessing(tasks, t)
    /\ statusLog' = [statusLog EXCEPT ![t] = Append(@, tasks'[t].status)]
    /\ IF buildOutputFilenameThrows(req[t].targetFormat)
       THEN /\ pc' = [pc EXCEPT ![t] = "rejected"]
            /\ call' = [call EXCEPT ![t] = IF req[t].mode = "sync" THEN "rejected" ELSE @]
            /\ UNCHANGED local
       ELSE /\ local' = [local EXCEPT
                            ![t].outputFilename =
                                buildOutputFilename(req[t].sourceFilename, t,
                                                    req[t].targetFormat),
                            ![t].outputPath =
                                OutputPath(req[t].sourceFilename, t, req[t].targetFormat)]
            /\ pc' = [pc EXCEPT ![t] = "prepareLegacyOfficeSource"]
            /\ UNCHANGED call
    /\ UNCHANGED <<outcomes, lastCall, nodeEnvTest, sofficePath, sofficeAvailability, req,
                   files, spawned, releaseLog, returned, now>>

\* prepareLegacyOfficeSource up to its first awaited I/O (lines 169-185) with
\* isSofficeAvailable's cache test (lines 245-248).
PrepareLegacyOfficeSource(t) ==
    /\ pc[t] = "prepareLegacyOfficeSource"
    /\ LET mapping == getLegacyOfficeMapping(req[t].sourceFormat)
       IN  IF mapping = "undefined" \/ ~sofficePath
           THEN /\ local' = [local EXCEPT ![t].legacy = "passthrough"]
                /\ pc' = [pc EXCEPT ![t] = "resolveStrategy"]
           ELSE IF sofficeAvailability = "undefined"
           THEN /\ pc' = [pc EXCEPT ![t] = "access"]
                /\ UNCHANGED local
           ELSE IF SkipsLibreOffice(sofficeAvailability)
           THEN /\ local' = [local EXCEPT ![t].available = sofficeAvailability,
                                          ![t].legacy = "passthrough"]
                /\ pc' = [pc EXCEPT ![t] = "resolveStrategy"]
           ELSE /\ local' = [local EXCEPT ![t].available = sofficeAvailability]
                /\ pc' = [pc EXCEPT ![t] = "mkdtemp"]
    /\ UNCHANGED <<outcomes, tasks, lastCall, nodeEnvTest, sofficePath, sofficeAvailability, req, files,
                   spawned, releaseLog, statusLog, call, returned, now>>

\* isSofficeAvailable: fs.promises.access settled (lines 250-257).
AccessDone(t, exists) ==
    /\ Idle
    /\ pc[t] = "access"
    /\ sofficeAvailability' = IF exists THEN "true" ELSE "false"
    /\ IF SkipsLibreOffice(sofficeAvailability')
       THEN /\ local' = [local EXCEPT ![t].available = sofficeAvailability',
                                      ![t].legacy = "passthrough"]
            /\ pc' = [pc EXCEPT ![t] = "resolveStrategy"]
       ELSE /\ local' = [local EXCEPT ![t].available = sofficeAvailability']
            /\ pc' = [pc EXCEPT ![t] = "mkdtemp"]
    /\ outcomes' = [outcomes EXCEPT ![t] = Append(@, <<"access", Settled(exists)>>)]
    /\ UNCHANGED <<tasks, lastCall, nodeEnvTest, sofficePath, req, files, spawned, releaseLog,
                   statusLog, call, returned, now>>

\* mkdtemp settled (line 185); on success LibreOffice is spawned (line 197).
MkdtempDone(t, ok) ==
    /\ Idle
    /\ pc[t] = "mkdtemp"
    /\ IF ok
       THEN /\ files' = [files EXCEPT ![t].scratch = "present"]
            /\ local' = [local EXCEPT ![t].tempDir = mkdtemp(t)]
            /\ spawned' = [spawned EXCEPT ![t] = Append(@, "soffice")]
            /\ pc' = [pc EXCEPT ![t] = "soffice"]
       ELSE /\ local' = [local EXCEPT ![t].error = "mkdtemp failed"]
            /\ pc' = [pc EXCEPT ![t] = "attach"]
            /\ UNCHANGED <<files, spawned>>
    /\ outcomes' = [outcomes EXCEPT ![t] = Append(@, <<"mkdtemp", Settled(ok)>>)]
    /\ UNCHANGED <<tasks, lastCall, nodeEnvTest, sofficePath, sofficeAvailability, req,
                   releaseLog, statusLog, call, returned, now>>

\* spawnLibreOffice settled (lines 260-287); on success readdir is awaited,
\* on failure the catch block starts removing the scratch directory.
SofficeSettles(t, outcome) ==
    /\ Idle
    /\ pc[t] = "soffice"
    /\ IF outcome = "exit0"
       THEN /\ pc' = [pc EXCEPT ![t] = "readdir"]
            /\ UNCHANGED local
       ELSE /\ local' = [local EXCEPT ![t].error =
                            IF outcome = "ENOENT"
                            THEN "LibreOffice executable not found"
                            ELSE "LibreOffice stderr or exit code"]
            /\ pc' = [pc EXCEPT ![t] = OnLegacyConversionFailure]
    /\ outcomes' = [outcomes EXCEPT ![t] = Append(@, <<"soffice", outcome>>)]
    /\ UNCHANGED <<tasks, lastCall, nodeEnvTest, sofficePath, sofficeAvailability, req, files,
                   spawned, releaseLog, statusLog, call, returned, now>>

\* readdir settled and the converted file was looked for (lines 199-215).
ReaddirDone(t, outcome) ==
    /\ Idle
    /\ pc[t] = "readdir"
    /\ IF outcome = "found"
       THEN /\ local' = [local EXCEPT ![t].legacy = "scratch"]
            /\ pc' = [pc EXCEPT ![t] = "resolveStrategy"]
       ELSE /\ local' = [local EXCEPT ![t].error =
                            IF outcome = "notFound"
                            THEN "LibreOffice conversion completed without producing output"
                            ELSE "readdir failed"]
            /\ pc' = [pc EXCEPT ![t] = OnLegacyConversionFailure]
    /\ outcomes' = [outcomes EXCEPT ![t] = Append(@, <<"readdir", outcome>>)]
    /\ UNCHANGED <<tasks, lastCall, nodeEnvTest, sofficePath, sofficeAvailability, req, files,
                   spawned, releaseLog, statusLog, call, returned, now>>

\* The catch block's rm settled; the error is rethrown to processTask's catch.
RmOnFailureDone(t, ok) ==
    /\ Idle
    /\ pc[t] = "rmOnFailure"
    /\ files' = [files EXCEPT ![t].scratch = Removed(ok)]
    /\ releaseLog' = [releaseLog EXCEPT ![t] = Append(@, "rm")]
    /\ pc' = [pc EXCEPT ![t] = "attach"]
    /\ outcomes' = [outcomes EXCEPT ![t] = Append(@, <<"rm", Settled(ok)>>)]
    /\ UNCHANGED <<tasks, lastCall, nodeEnvTest, sofficePath, sofficeAvailability, req, local,
                   spawned, statusLog, call, returned, now>>

\* resolveStrategy and prepareSource up to the first awaited I/O (lines
\* 124-138, 161-167, 295-301): the PDF branch awaits the extraction, every
\* other case is a pass-through and the invoker starts at once.
ResolveStrategy(t) ==
    /\ pc[t] = "resolveStrategy"
    /\ LET strategy == resolveStrategy(nodeEnvTest, req[t].targetFormat)
       IN  IF strategy = "pandoc" /\ IsPdf(EffectiveSourceFormat(t))
           THEN /\ local' = [local EXCEPT ![t].strategy = strategy,
                                          ![t].intermediatePath =
                                              buildIntermediateMarkdownPath(
                                                  req[t].sourceFilename, t)]
                /\ pc' = [pc EXCEPT ![t] = "extractPdf"]
                /\ UNCHANGED spawned
           ELSE /\ local' = [local EXCEPT
                                ![t].strategy = strategy,
                                ![t].prep = "passthrough",
                                ![t].args =
                                    InvokerArgs(strategy, EffectiveSourceFormat(t),
                                                EffectiveSourcePath(t),
                                                req[t].targetFormat,
                                                local[t].outputPath)]
                /\ pc' = [pc EXCEPT ![t] = InvokerPc(strategy)]
                /\ spawned' = [spawned EXCEPT ![t] = @ \o InvokerSpawns(strategy)]
    /\ UNCHANGED <<outcomes, tasks, lastCall, nodeEnvTest, sofficePath, sofficeAvailability, req, files,
                   releaseLog, statusLog, call, returned, now>>

\* convertPdfToMarkdown: readFile and extractText settled (lines 318-321).
ExtractPdfDone(t, ok) ==
    /\ Idle
    /\ pc[t] = "extractPdf"
    /\ IF ok
       THEN /\ pc' = [pc EXCEPT ![t] = "writeIntermediate"]
            /\ UNCHANGED local
       ELSE /\ local' = [local EXCEPT ![t].error = "PDF extraction failed"]
            /\ pc' = [pc EXCEPT ![t] = AfterPrepareSourceFailure]
    /\ outcomes' = [outcomes EXCEPT ![t] = Append(@, <<"extractPdf", Settled(ok)>>)]
    /\ UNCHANGED <<tasks, lastCall, nodeEnvTest, sofficePath, sofficeAvailability, req, files,
                   spawned, releaseLog, statusLog, call, returned, now>>

\* convertPdfToMarkdown: writeFile settled (line 322); on success the
\* prepared source is returned (303-309) and pandoc is spawned (137, 369).
WriteIntermediateDone(t, outcome) ==
    /\ Idle
    /\ pc[t] = "writeIntermediate"
    /\ files' = [files EXCEPT ![t].intermediate =
                    IF outcome = "failedNoFile" THEN @ ELSE "present"]
    /\ IF outcome = "written"
       THEN /\ local' = [local EXCEPT
                            ![t].prep = "intermediate",
                            ![t].args =
                                InvokerArgs(local[t].strategy, "markdown",
                                            local[t].intermediatePath,
                                            req[t].targetFormat, local[t].outputPath)]
            /\ pc' = [pc EXCEPT ![t] = InvokerPc(local[t].strategy)]
            /\ spawned' = [spawned EXCEPT ![t] = @ \o InvokerSpawns(local[t].strategy)]
       ELSE /\ local' = [local EXCEPT ![t].error = "writing the intermediate file failed"]
            /\ pc' = [pc EXCEPT ![t] = AfterPrepareSourceFailure]
            /\ UNCHANGED spawned
    /\ outcomes' = [outcomes EXCEPT ![t] = Append(@, <<"writeFile", outcome>>)]
    /\ UNCHANGED <<tasks, lastCall, nodeEnvTest, sofficePath, sofficeAvailability, req,
                   releaseLog, statusLog, call, returned, now>>

\* runPandoc or MarkitdownService.convert settled (lines 368-394; markitdownService 35-62).
ConverterSettles(t, outcome) ==
    /\ Idle
    /\ pc[t] \in {"pandoc", "markitdown"}
    /\ IF outcome = "exit0"
       THEN /\ files' = [files EXCEPT ![t].output = "converter output"]
            /\ UNCHANGED local
       ELSE /\ local' = [local EXCEPT ![t].error =
                            IF outcome = "ENOENT"
                            THEN "converter executable not found"
                            ELSE "converter stderr or exit code"]
            /\ UNCHANGED files
    /\ pc' = [pc EXCEPT ![t] = AfterInvoker(outcome = "exit0")]
    /\ outcomes' = [outcomes EXCEPT ![t] = Append(@, <<pc[t], outcome>>)]
    /\ UNCHANGED <<tasks, lastCall, nodeEnvTest, sofficePath, sofficeAvailability, req,
                   spawned, releaseLog, statusLog, call, returned, now>>

\* simulateConversion: copyFile settled (line 348); a failure starts the
\* read/write fallback.
CopyFileDone(t, ok) ==
    /\ Idle
    /\ pc[t] = "copyFile"
    /\ IF ok
       THEN /\ files' = [files EXCEPT ![t].output = PreparedSourceContent(t)]
            /\ pc' = [pc EXCEPT ![t] = AfterInvoker(TRUE)]
       ELSE /\ pc' = [pc EXCEPT ![t] = OnCopyFileFailure]
            /\ UNCHANGED files
    /\ outcomes' = [outcomes EXCEPT ![t] = Append(@, <<"copyFile", Settled(ok)>>)]
    /\ UNCHANGED <<tasks, lastCall, nodeEnvTest, sofficePath, sofficeAvailability, req, local,
                   spawned, releaseLog, statusLog, call, returned, now>>

\* simulateConversion: the readFile / writeFile fallback settled (lines 349-350).
CopyFallbackDone(t, ok) ==
    /\ Idle
    /\ pc[t] = "copyFallback"
    /\ IF ok
       THEN /\ files' = [files EXCEPT ![t].output =
                            Utf8RoundTrip(PreparedSourceContent(t),
                                          EffectiveSourceFormat(t))]
            /\ UNCHANGED local
       ELSE /\ local' = [local EXCEPT ![t].error = "copy failed"]
            /\ UNCHANGED files
    /\ pc' = [pc EXCEPT ![t] = AfterInvoker(ok)]
    /\ outcomes' = [outcomes EXCEPT ![t] = Append(@, <<"copyFallback", Settled(ok)>>)]
    /\ UNCHANGED <<tasks, lastCall, nodeEnvTest, sofficePath, sofficeAvailability, req,
                   spawned, releaseLog, statusLog, call, returned, now>>

\* finally { await preparation.cleanup() }: a no-op for a pass-through,
\* unlink for the intermediate file (lines 139-141, 226, 306-308).
PreparationCleanup(t) ==
    /\ pc[t] = "preparationCleanup"
    /\ IF local[t].prep = "intermediate"
       THEN /\ releaseLog' = [releaseLog EXCEPT ![t] = Append(@, "preparation:start")]
            /\ pc' = [pc EXCEPT ![t] = "unlink"]
       ELSE /\ releaseLog' = [releaseLog EXCEPT ![t] =
                                @ \o <<"preparation:start", "preparation:end">>]
            /\ pc' = [pc EXCEPT ![t] = AfterPreparationCleanup]
    /\ UNCHANGED <<outcomes, tasks, lastCall, nodeEnvTest, sofficePath, sofficeAvailability, req, local,
                   files, spawned, statusLog, call, returned, now>>

\* unlink of the intermediate file settled; a failure is swallowed (line 307).
UnlinkDone(t, ok) ==
    /\ Idle
    /\ pc[t] = "unlink"
    /\ files' = [files EXCEPT ![t].intermediate = Removed(ok)]
    /\ releaseLog' = [releaseLog EXCEPT ![t] = @ \o <<"unlink", "preparation:end">>]
    /\ pc' = [pc EXCEPT ![t] = AfterPreparationCleanup]
    /\ outcomes' = [outcomes EXCEPT ![t] = Append(@, <<"unlink", Settled(ok)>>)]
    /\ UNCHANGED <<tasks, lastCall, nodeEnvTest, sofficePath, sofficeAvailability, req, local,
                   spawned, statusLog, call, returned, now>>

\* finally { await legacyPreparation.cleanup() }: a no-op for a pass-through,
\* rm of the scratch directory otherwise (lines 142-144, 212-214, 226).
LegacyCleanup(t) ==
    /\ pc[t] = "legacyCleanup"
    /\ IF local[t].legacy = "scratch"
       THEN /\ releaseLog' = [releaseLog EXCEPT ![t] = Append(@, "legacy:start")]
            /\ pc' = [pc EXCEPT ![t] = "rm"]
       ELSE /\ releaseLog' = [releaseLog EXCEPT ![t] = @ \o <<"legacy:start", "legacy:end">>]
            /\ pc' = [pc EXCEPT ![t] = "attach"]
    /\ UNCHANGED <<outcomes, tasks, lastCall, nodeEnvTest, sofficePath, sofficeAvailability, req, local,
                   files, spawned, statusLog, call, returned, now>>

\* rm of the scratch directory settled; a failure is swallowed (line 213).
RmDone(t, ok) ==
    /\ Idle
    /\ pc[t] = "rm"
    /\ files' = [files EXCEPT ![t].scratch = Removed(ok)]
    /\ releaseLog' = [releaseLog EXCEPT ![t] = @ \o <<"rm", "legacy:end">>]
    /\ pc' = [pc EXCEPT ![t] = "attach"]
    /\ outcomes' = [outcomes EXCEPT ![t] = Append(@, <<"rm", Settled(ok)>>)]
    /\ UNCHANGED <<tasks, lastCall, nodeEnvTest, sofficePath, sofficeAvailability, req, local,
                   spawned, statusLog, call, returned, now>>

\* The end of processTask: attachResult when nothing was thrown (line 146),
\* attachError in the catch block (lines 147-150).  The promise resolves;
\* convertSynchronously then returns getTask(taskId) (lines 101-106).
Attach(t) ==
    /\ pc[t] = "attach"
    /\ tasks' = IF local[t].error = "none"
                THEN attachResult(tasks, t, local[t].outputPath)
                ELSE attachError(tasks, t, local[t].error)
    /\ statusLog' = [statusLog EXCEPT ![t] = Append(@, tasks'[t].status)]
    /\ pc' = [pc EXCEPT ![t] = "resolved"]
    /\ call' = [call EXCEPT ![t] = IF req[t].mode = "sync" THEN "returned" ELSE @]
    /\ returned' = [returned EXCEPT ![t] =
                       IF req[t].mode = "sync" THEN getTaskResult(tasks', t) ELSE @]
    /\ UNCHANGED <<outcomes, lastCall, nodeEnvTest, sofficePath, sofficeAvailability, req, local, files,
                   spawned, releaseLog, now>>

-----------------------------------------------------------------------------

\* One step of the pipeline of request t.
PipelineStep(t) ==
        \/ ProcessTaskStart(t)
        \/ PrepareLegacyOfficeSource(t)
        \/ \E exists \in BOOLEAN : AccessDone(t, exists)
        \/ \E ok \in BOOLEAN : MkdtempDone(t, ok)
        \/ \E outcome \in SpawnOutcomes : SofficeSettles(t, outcome)
        \/ \E outcome \in ReaddirOutcomes : ReaddirDone(t, outcome)
        \/ \E ok \in BOOLEAN : RmOnFailureDone(t, ok)
        \/ ResolveStrategy(t)
        \/ \E ok \in BOOLEAN : ExtractPdfDone(t, ok)
        \/ \E outcome \in WriteOutcomes : WriteIntermediateDone(t, outcome)
        \/ \E outcome \in SpawnOutcomes : ConverterSettles(t, outcome)
        \/ \E ok \in BOOLEAN : CopyFileDone(t, ok)
        \/ \E ok \in BOOLEAN : CopyFallbackDone(t, ok)
        \/ PreparationCleanup(t)
        \/ \E ok \in BOOLEAN : UnlinkDone(t, ok)
        \/ LegacyCleanup(t)
        \/ \E ok \in BOOLEAN : RmDone(t, ok)
        \/ Attach(t)

Next ==
    \E t \in TaskIds :
        \/ CreateConversionTask(t)
        \/ ConvertSynchronously(t)
        \/ PipelineStep(t)

Spec == Init /\ [][Next]_vars

-----------------------------------------------------------------------------
(* The TaskManager driven directly by a client that holds the reference    *)
(* (createApp hands it out in AppContext), with ids of its own choosing.   *)

InitStore ==
    /\ tasks = <<>>
    /\ lastCall = NoCall
    /\ nodeEnvTest = FALSE
    /\ sofficePath = FALSE
    /\ sofficeAvailability = "undefined"
    /\ pc = [t \in TaskIds |-> "unborn"]
    /\ req = [t \in TaskIds |-> NoRequest]
    /\ local = [t \in TaskIds |-> NoLocal]
    /\ files = [t \in TaskIds |-> NoFiles]
    /\ spawned = [t \in TaskIds |-> <<>>]
    /\ releaseLog = [t \in TaskIds |-> <<>>]
    /\ statusLog = [t \in TaskIds |-> <<>>]
    /\ call = [t \in TaskIds |-> "none"]
    /\ returned = [t \in TaskIds |-> NothingReturned]
    /\ now = 0
    /\ outcomes = [t \in TaskIds |-> <<>>]

pipelineVars == <<nodeEnvTest, sofficePath, sofficeAvailability, pc, req, local,
                  files, spawned, releaseLog, statusLog, call, returned, outcomes, now>>

\* Time passes between two calls.
Tick ==
    /\ now < MaxClock
    /\ now' = now + 1
    /\ UNCHANGED <<tasks, nodeEnvTest, sofficePath, sofficeAvailability, pc, req, local,
                   files, spawned, releaseLog, statusLog, call, returned, outcomes,
                   lastCall>>

ClientPayload(id) ==
    [id |-> id, sourcePath |-> SamplePath, sourceRelativePath |-> SampleRelativePath,
     sourceFilename |-> SampleFilename, sourceFormat |-> "markdown",
     targetFormat |-> "html"]

ClientCreateTask(id) ==
    /\ lastCall' = [op |-> "createTask", id |-> id, at |-> now,
                    known |-> id \in DOMAIN tasks,
                    threw |-> createTaskThrows(tasks, ClientPayload(id)),
                    returned |-> "task", before |-> tasks]
    /\ tasks' = createTask(tasks, ClientPayload(id))
    /\ UNCHANGED pipelineVars

ClientUpdateStatus(id, status) ==
    /\ lastCall' = [op |-> "updateStatus", id |-> id, at |-> now,
                    known |-> id \in DOMAIN tasks,
                    threw |-> FALSE,
                    returned |-> updateStatusReturns(tasks, id), before |-> tasks]
    /\ tasks' = updateStatus(tasks, id, status, <<>>)
    /\ UNCHANGED pipelineVars

ClientSetProcessing(id) ==
    /\ lastCall' = [op |-> "setProcessing", id |-> id, at |-> now,
                    known |-> id \in DOMAIN tasks,
                    threw |-> FALSE,
                    returned |-> updateStatusReturns(tasks, id), before |-> tasks]
    /\ tasks' = setProcessing(tasks, id)
    /\ UNCHANGED pipelineVars

ClientAttachResult(id) ==
    /\ lastCall' = [op |-> "attachResult", id |-> id, at |-> now,
                    known |-> id \in DOMAIN tasks,
                    threw |-> FALSE,
                    returned |-> updateStatusReturns(tasks, id), before |-> tasks]
    /\ tasks' = attachResult(tasks, id, OutputPath(SampleFilename, id, "html"))
    /\ UNCHANGED pipelineVars

ClientAttachError(id) ==
    /\ lastCall' = [op |-> "attachError", id |-> id, at |-> now,
                    known |-> id \in DOMAIN tasks,
                    threw |-> FALSE,
                    returned |-> updateStatusReturns(tasks, id), before |-> tasks]
    /\ tasks' = attachError(tasks, id, "some error")
    /\ UNCHANGED pipelineVars

NextStore ==
    \E id \in TaskIds :
        \/ ClientCreateTask(id)
        \/ \E status \in Statuses : ClientUpdateStatus(id, status)
        \/ ClientSetProcessing(id)
        \/ ClientAttachResult(id)
        \/ ClientAttachError(id)

StoreSpec == InitStore /\ [][NextStore]_vars

\* The same store with a clock that advances between the calls.
\* The ids of the two records the clocked client works on.
ClockedIds == {1, 2}

NextTimedStore ==
    \/ Tick
    \/ \E id \in ClockedIds :
           \/ ClientCreateTask(id)
           \/ ClientSetProcessing(id)
           \/ ClientAttachResult(id)
           \/ ClientAttachError(id)

TimedStoreSpec == InitStore /\ [][NextTimedStore]_vars

-----------------------------------------------------------------------------
(* The read routes GET /download/:taskId and GET /tasks/:taskId, over a    *)
(* store in any state the TaskManager can produce and output files that    *)
(* appear and disappear on disk.                                           *)

\* A task id that is never registered.
UnknownId == 0

RouteIds == TaskIds \cup {UnknownId}

\* fs.existsSync(path) for the output paths of the tasks.
existsSync(path) ==
    \E t \in TaskIds : /\ path = OutputPath(SampleFilename, t, "html")
                        /\ files[t].output # "absent"

\* What fs.createReadStream(path) delivers.
FileContent(path) ==
    LET t == CHOOSE u \in TaskIds : path = OutputPath(SampleFilename, u, "html")
    IN  files[t].output

ReadOutcomes == {"data", "ENOENT", "EIO"}

\* A download handler that answers 409 for a completed task without its file.
DownloadResponse_MissingFileIs409(id, readOutcome) ==
    IF ~HasTask(id)
    THEN [status |-> 404, error |-> "Task not found."]
    ELSE IF getTask(id).status # "completed" \/ "outputPath" \notin DOMAIN getTask(id)
         THEN [status |-> 409, error |-> "Task is not completed yet or has no output."]
         ELSE IF ~existsSync(getTask(id).outputPath)
              THEN [status |-> 409, error |-> "Task is not completed yet or has no output."]
              ELSE [status |-> 200, body |-> FileContent(getTask(id).outputPath)]

\* router.get('/:taskId') of the download route; readOutcome is what the
\* read stream does after existsSync answered true.
DownloadResponse(id, readOutcome) ==
    IF ~HasTask(id)
    THEN [status |-> 404, error |-> "Task not found."]
    ELSE IF getTask(id).status # "completed" \/ "outputPath" \notin DOMAIN getTask(id)
         THEN [status |-> 409, error |-> "Task is not completed yet or has no output."]
         ELSE IF ~existsSync(getTask(id).outputPath)
              THEN [status |-> 404, error |-> "Converted file not found on disk."]
              ELSE CASE readOutcome = "data" ->
                            [status |-> 200, body |-> FileContent(getTask(id).outputPath)]
                     [] readOutcome = "ENOENT" ->
                            [status |-> 404, error |-> "Failed to read converted file."]
                     [] OTHER ->
                            [status |-> 500, error |-> "Failed to read converted file."]

\* req.get('host') of a request without a Host header.
NoHost == "undefined"

\* The Host headers of the requests; the last one makes new URL throw.
Hosts == {NoHost, "localhost:3000", "not a host"}

\* new URL(..., `${protocol}://${host}`) throws a TypeError on this host.
InvalidBase(host) == host = "not a host"

\* buildDownloadUrl: undefined without a Host header or when the URL
\* cannot be built, otherwise <base>/download/<taskId>.
buildDownloadUrl(host, taskId) ==
    IF host = NoHost \/ InvalidBase(host)
    THEN <<>>
    ELSE <<"http://", host, "/download/", taskId>>

\* The task object of the answer; JSON leaves out what is undefined.
\* outputPath is rendered relative to CONVERTED_DIR.
RenderedTask(task, downloadUrl) ==
    [id |-> task.id, status |-> task.status, sourcePath |-> task.sourceRelativePath,
     sourceFormat |-> task.sourceFormat, targetFormat |-> task.targetFormat,
     sourceFilename |-> task.sourceFilename, createdAt |-> task.createdAt,
     updatedAt |-> task.updatedAt]
    @@ (IF "outputPath" \in DOMAIN task
        THEN [outputPath |-> pathRelative(outputDirectory, task.outputPath)]
        ELSE <<>>)
    @@ (IF "error" \in DOMAIN task THEN [error |-> task.error] ELSE <<>>)
    @@ (IF downloadUrl # <<>> THEN [downloadUrl |-> downloadUrl] ELSE <<>>)

\* A status handler without the test for a missing task: reading
\* task.status of undefined throws.
StatusResponse_NoGuard(id, host) ==
    IF ~HasTask(id)
    THEN [status |-> 500, threw |-> TRUE]
    ELSE [status |-> 200, threw |-> FALSE,
          task |-> RenderedTask(getTask(id),
                       IF getTask(id).status = "completed"
                          /\ "outputPath" \in DOMAIN getTask(id)
                       THEN buildDownloadUrl(host, id) ELSE <<>>)]

\* A status handler that links every task that has an output path.
StatusResponse_LinkForAnyOutput(id, host) ==
    IF ~HasTask(id)
    THEN [status |-> 404, threw |-> FALSE, error |-> "Task not found."]
    ELSE [status |-> 200, threw |-> FALSE,
          task |-> RenderedTask(getTask(id),
                       IF "outputPath" \in DOMAIN getTask(id)
                       THEN buildDownloadUrl(host, id) ELSE <<>>)]

\* router.get('/:taskId') of the tasks route.
StatusResponse(id, host) ==
    IF ~HasTask(id)
    THEN [status |-> 404, threw |-> FALSE, error |-> "Task not found."]
    ELSE [status |-> 200, threw |-> FALSE,
          task |-> RenderedTask(getTask(id),
                       IF getTask(id).status = "completed"
                          /\ "outputPath" \in DOMAIN getTask(id)
                       THEN buildDownloadUrl(host, id) ELSE <<>>)]

\* TaskManager.getTask: Map.get, the record or undefined.
getTaskReturns(store, id) == IF id \in DOMAIN store THEN "task" ELSE "undefined"

StoreOps == {"createTask", "setProcessing", "attachResult", "attachError",
             "updateStatus completed"}

\* Some holder of the TaskManager changes the record of a task.
StoreChanges(id, op) ==
    /\ tasks' = CASE op = "createTask" -> createTask(tasks, ClientPayload(id))
                  [] op = "setProcessing" -> setProcessing(tasks, id)
                  [] op = "attachResult" ->
                         attachResult(tasks, id, OutputPath(SampleFilename, id, "html"))
                  [] op = "attachError" -> attachError(tasks, id, "some error")
                  [] OTHER -> updateStatus(tasks, id, "completed", <<>>)
    /\ lastCall' = NoCall
    /\ UNCHANGED pipelineVars

\* The output file of a task is written, or removed from the disk.
OutputFileChanges(id) ==
    /\ files' = [files EXCEPT ![id].output =
                    IF @ = "absent" THEN "converter output" ELSE "absent"]
    /\ lastCall' = NoCall
    /\ UNCHANGED <<tasks, nodeEnvTest, sofficePath, sofficeAvailability, pc, req, local,
                   spawned, releaseLog, statusLog, call, outcomes, returned, now>>

Download(id, readOutcome) ==
    /\ lastCall' = [op |-> "download", id |-> id,
                    response |-> DownloadResponse(id, readOutcome), before |-> tasks]
    /\ UNCHANGED tasks
    /\ UNCHANGED pipelineVars

QueryStatus(id, host) ==
    /\ lastCall' = [op |-> "status", id |-> id, host |-> host,
                    returned |-> getTaskReturns(tasks, id),
                    response |-> StatusResponse(id, host), before |-> tasks]
    /\ UNCHANGED tasks
    /\ UNCHANGED pipelineVars

NextRoutes ==
    \/ \E id \in TaskIds, op \in StoreOps : StoreChanges(id, op)
    \/ \E id \in TaskIds : OutputFileChanges(id)
    \/ \E id \in RouteIds, readOutcome \in ReadOutcomes : Download(id, readOutcome)
    \/ \E id \in RouteIds, host \in Hosts : QueryStatus(id, host)

RouteSpec == InitStore /\ [][NextRoutes]_vars

-----------------------------------------------------------------------------
(* POST /convert in front of the pipeline: requests arrive as JSON bodies, *)
(* are validated by the route, and the accepted ones go through            *)
(* createConversionTask.                                                   *)

\* A field that the JSON body does not have (undefined, falsy).
Missing == "<undefined>"

\* STORAGE_ROOT, as an absolute path.
STORAGE_ROOT == << <<"storage">> >>

BodySourcePaths == {Missing, JsNumber, "uploads/sample.md", "uploads/missing.md",
                    "../outside.md", "/etc/passwd", "uploads/../../etc/passwd",
                    "uploads\\..\\..\\etc\\passwd", "../storage/uploads/sample.md",
                    "..hidden.md"}

ConvertBodies == [sourcePath : BodySourcePaths, sourceFormat : {Missing, "markdown"},
                  targetFormat : {Missing, "html"}]

\* path.isAbsolute on the source paths used here.
isAbsolute(s) == s = "/etc/passwd"

\* path.normalize(sourcePath).replace(/\\/g, '/'), split at '/'.
normalizedRelativePath(s) ==
    CASE s = "uploads/sample.md" -> << <<"uploads">>, <<"sample.md">> >>
      [] s = "uploads/missing.md" -> << <<"uploads">>, <<"missing.md">> >>
      [] s = "../outside.md" -> << <<"..">>, <<"outside.md">> >>
      [] s = "uploads/../../etc/passwd" -> << <<"..">>, <<"etc">>, <<"passwd">> >>
      [] s = "uploads\\..\\..\\etc\\passwd" ->
             << <<"uploads">>, <<"..">>, <<"..">>, <<"etc">>, <<"passwd">> >>
      [] s = "../storage/uploads/sample.md" ->
             << <<"..">>, <<"storage">>, <<"uploads">>, <<"sample.md">> >>
      [] OTHER -> << <<s>> >>

\* path.resolve(from, relative)
pathResolve(from, relative) == NormalizeSegments(<<>>, from \o relative)

\* safeRelativePath.startsWith('..'): a test on characters, not on components.
startsWithDotDot(relative) ==
    relative # <<>> /\ Head(relative)[1] \in {"..", "..hidden.md"}

\* The files that exist on disk, inside and outside the storage root.
FilesOnDisk == {SamplePath,
                << <<"storage">>, <<"..hidden.md">> >>,
                << <<"outside.md">> >>,
                << <<"etc">>, <<"passwd">> >>}

sourceExistsSync(path) == path \in FilesOnDisk

\* path.basename of an absolute path.
basename(path) == path[Len(path)][1]

\* A validation that does not test where the path resolves.
ConvertValidation_NoContainment(body) ==
    IF body.sourcePath = Missing \/ body.sourceFormat = Missing
       \/ body.targetFormat = Missing
    THEN [status |-> 400, message |-> "sourcePath, sourceFormat, and targetFormat are required."]
    ELSE IF ~IsString(body.sourcePath)
    THEN [status |-> 500, message |-> "TypeError"]
    ELSE IF isAbsolute(body.sourcePath)
    THEN [status |-> 400,
          message |-> "sourcePath must be a path relative to the storage directory."]
    ELSE LET absoluteSourcePath ==
                 pathResolve(STORAGE_ROOT, normalizedRelativePath(body.sourcePath))
         IN  IF ~sourceExistsSync(absoluteSourcePath)
             THEN [status |-> 404, message |-> "Source file not found."]
             ELSE [status |-> 202, absoluteSourcePath |-> absoluteSourcePath]

\* router.post('/') up to the call of createConversionTask (lines 106-135):
\* the rejection, or 202 with the resolved path.  path.isAbsolute throws a
\* TypeError for a source path that is not a string.
ConvertValidation(body) ==
    IF body.sourcePath = Missing \/ body.sourceFormat = Missing
       \/ body.targetFormat = Missing
    THEN [status |-> 400, message |-> "sourcePath, sourceFormat, and targetFormat are required."]
    ELSE IF ~IsString(body.sourcePath)
    THEN [status |-> 500, message |-> "TypeError"]
    ELSE IF isAbsolute(body.sourcePath)
    THEN [status |-> 400,
          message |-> "sourcePath must be a path relative to the storage directory."]
    ELSE LET absoluteSourcePath ==
                 pathResolve(STORAGE_ROOT, normalizedRelativePath(body.sourcePath))
             safeRelativePath == pathRelative(STORAGE_ROOT, absoluteSourcePath)
         IN  IF startsWithDotDot(safeRelativePath)
             THEN [status |-> 400,
                   message |-> "sourcePath must resolve within the storage directory."]
             ELSE IF ~sourceExistsSync(absoluteSourcePath)
             THEN [status |-> 404, message |-> "Source file not found."]
             ELSE [status |-> 202, absoluteSourcePath |-> absoluteSourcePath]

\* The request slots that hold a request.
Born == {t \in TaskIds : pc[t] # "unborn"}

\* router.post('/'): a rejected body changes nothing; an accepted one is
\* handed to createConversionTask, whose rejection becomes a 500.
PostConvert(t, body, mkdirOk) ==
    LET checked == ConvertValidation(body)
    IN  /\ Idle
        /\ IF checked.status = 202
           THEN /\ Register(t, [sourcePath |-> checked.absoluteSourcePath,
                                sourceRelativePath |->
                                    pathRelative(STORAGE_ROOT,
                                                 checked.absoluteSourcePath),
                                sourceFilename |-> basename(checked.absoluteSourcePath),
                                sourceFormat |-> body.sourceFormat,
                                targetFormat |-> body.targetFormat], "async", mkdirOk)
                /\ lastCall' = [op |-> "convert", body |-> body,
                                status |-> IF mkdirOk THEN 202 ELSE 500,
                                registered |-> DOMAIN tasks, born |-> Born]
           ELSE /\ lastCall' = [op |-> "convert", body |-> body,
                                status |-> checked.status,
                                registered |-> DOMAIN tasks, born |-> Born]
                /\ UNCHANGED <<tasks, nodeEnvTest, sofficePath, sofficeAvailability, pc,
                               req, local, files, spawned, releaseLog, statusLog, call,
                               outcomes, returned, now>>

\* The steps processTask takes for the requests of ConvertBodies: a
\* markdown source, outside test mode and with no office converter
\* configured (InitStore), goes straight to pandoc.
MarkdownPipelineStep(t) ==
        \/ ProcessTaskStart(t)
        \/ PrepareLegacyOfficeSource(t)
        \/ ResolveStrategy(t)
        \/ \E outcome \in SpawnOutcomes : ConverterSettles(t, outcome)
        \/ PreparationCleanup(t)
        \/ LegacyCleanup(t)
        \/ Attach(t)

NextConvertRoute ==
    \E t \in TaskIds :
        \/ \E body \in ConvertBodies, mkdirOk \in BOOLEAN : PostConvert(t, body, mkdirOk)
        \/ MarkdownPipelineStep(t)

ConvertRouteSpec == InitStore /\ [][NextConvertRoute]_vars

-----------------------------------------------------------------------------
(* The file names and paths of processTask on their own, for file names   *)
(* and target formats of any shape: every request slot holds a request    *)
(* and the paths its pipeline would use are computed.                     *)

PathFilenames == {"sample.md", "dir/sample.md", "archive.tar.gz"}

PathTargetFormats == {"html", ".HTML", "MD", ".md", "Markdown", "TXT", "plain",
                      "x/../shared.md", "x/../../escaped.md"}

PathRequests == [sourcePath : {SamplePath}, sourceRelativePath : {SampleRelativePath},
                 sourceFilename : PathFilenames,
                 sourceFormat : {"pdf"}, targetFormat : PathTargetFormats,
                 mode : {"async"}]

InitPaths ==
    /\ tasks = <<>>
    /\ lastCall = NoCall
    /\ nodeEnvTest = FALSE
    /\ sofficePath = TRUE
    /\ sofficeAvailability = "undefined"
    /\ pc = [t \in TaskIds |-> "unborn"]
    /\ req \in [TaskIds -> PathRequests]
    /\ local = [t \in TaskIds |-> NoLocal]
    /\ files = [t \in TaskIds |-> NoFiles]
    /\ spawned = [t \in TaskIds |-> <<>>]
    /\ releaseLog = [t \in TaskIds |-> <<>>]
    /\ statusLog = [t \in TaskIds |-> <<>>]
    /\ call = [t \in TaskIds |-> "none"]
    /\ returned = [t \in TaskIds |-> NothingReturned]
    /\ now = 0
    /\ outcomes = [t \in TaskIds |-> <<>>]

\* Lines 112-113, 300 and 185 for request t.
BuildPaths(t) ==
    /\ local[t].outputPath = <<>>
    /\ local' = [local EXCEPT
                    ![t].outputFilename =
                        buildOutputFilename(req[t].sourceFilename, t, req[t].targetFormat),
                    ![t].outputPath =
                        OutputPath(req[t].sourceFilename, t, req[t].targetFormat),
                    ![t].intermediatePath =
                        buildIntermediateMarkdownPath(req[t].sourceFilename, t),
                    ![t].tempDir = mkdtemp(t)]
    /\ UNCHANGED <<tasks, lastCall, nodeEnvTest, sofficePath, sofficeAvailability, pc, req,
                   files, spawned, releaseLog, statusLog, call, outcomes, returned, now>>

NextPaths == \E t \in TaskIds : BuildPaths(t)

PathSpec == InitPaths /\ [][NextPaths]_vars

-----------------------------------------------------------------------------
(* One request through the whole pipeline, with source and target formats  *)
(* in the spellings a caller may send: aliases, upper case, padding.       *)

FormatSourceFormats == {"markdown", "md", "DOCX", " htm ", "pdf", "PDF", "doc", "txt"}

FormatTargetFormats == {"html", "HTM", " htm ", "md", "markdown", "Plain", "DOCX", "pdf"}

FormatRequests == [sourcePath : {SamplePath},
                   sourceRelativePath : {SampleRelativePath},
                   sourceFilename : {SampleFilename},
                   sourceFormat : FormatSourceFormats,
                   targetFormat : FormatTargetFormats]

\* createConversionTask for the only request of the behaviour.
SubmitFormats(t) ==
    /\ \A u \in TaskIds : pc[u] = "unborn"
    /\ \E r \in FormatRequests : Register(t, r, "async", TRUE)
    /\ UNCHANGED lastCall

NextFormats ==
    \E t \in TaskIds :
        \/ SubmitFormats(t)
        \/ PipelineStep(t)

FormatSpec == Init /\ [][NextFormats]_vars

-----------------------------------------------------------------------------
(* One request through the whole pipeline while the clock advances.        *)

\* createConversionTask for the only request of the behaviour.
SubmitTimed(t) ==
    /\ \A u \in TaskIds : pc[u] = "unborn"
    /\ \E r \in Requests : Register(t, r, "async", TRUE)
    /\ UNCHANGED lastCall

NextTimed ==
    \/ Tick
    \/ \E t \in TaskIds :
           \/ SubmitTimed(t)
           \/ PipelineStep(t)

TimedSpec == Init /\ [][NextTimed]_vars

-----------------------------------------------------------------------------
(* The converter invokers (runPandoc, MarkitdownService.convert) at the    *)
(* level of the child process's events: stderr data, 'error' and 'close'.  *)
(* lastCall holds the child process of the task being converted.           *)

\* Number of stderr chunks a child process writes.
MaxChunks == 2

Invokers == {"pandoc", "markitdown"}

\* this.pandocPath / this.executablePath: the default or a configured path.
ExecutablePaths == {"converter", "/opt/tools/converter"}

\* What a 'data' event of stderr carries.
StderrChunks == {"", "cannot read input\n"}

\* err.code of a spawn error.
SpawnErrorCodes == {"ENOENT", "EACCES"}

\* The code of a 'close' event.
ExitCodes == {0, 1, 2}

\* The code of a 'close' event is null when a signal ended the child.
NullCode == -1

\* `${code}`
CodeText(code) ==
    CASE code = 0 -> "0"
      [] code = 1 -> "1"
      [] code = NullCode -> "null"
      [] OTHER -> "2"

\* stderr.trim() of a text in pieces: white-space pieces at both ends go,
\* and the last piece left loses its trailing line break.
TrimPiece(c) ==
    CASE c = "cannot read input\n" -> "cannot read input"
      [] c = "\n" -> ""
      [] OTHER -> c

RECURSIVE TrimText(_)
TrimText(text) ==
    IF text = <<>>
    THEN <<>>
    ELSE IF TrimPiece(Head(text)) = ""
    THEN TrimText(Tail(text))
    ELSE IF TrimPiece(text[Len(text)]) = ""
    THEN TrimText(SubSeq(text, 1, Len(text) - 1))
    ELSE SubSeq(text, 1, Len(text) - 1) \o <<TrimPiece(text[Len(text)])>>

\* stderr += data.toString(): a text is the sequence of its non-empty pieces.
StderrText(chunks) == SelectSeq(chunks, LAMBDA c : c # "")

\* The message of the Error built in the ENOENT branch (lines 379, 45).
NotFoundMessage(invoker, path) ==
    CASE invoker = "pandoc" ->
           <<"Failed to launch Pandoc at \"", path,
             "\". Ensure Pandoc is installed on the server and the executable path is reachable (set PANDOC_PATH if necessary).">>
      [] invoker = "soffice" ->
           <<"LibreOffice executable not found at \"", path, "\".">>
      [] OTHER ->
           <<"Markitdown executable not found at \"", path,
             "\". Install markitdown or set MARKITDOWN_PATH to the executable location.">>

\* The message of the error child_process hands to the 'error' listener.
SpawnErrorMessage(path, code) == <<"spawn ", path, " ", code>>

\* An 'error' listener without the ENOENT branch.
ErrorRejection_NoHint(invoker, path, code) == SpawnErrorMessage(path, code)

\* The 'error' listener: what the promise is rejected with.
ErrorRejection(invoker, path, code) ==
    IF code = "ENOENT"
    THEN NotFoundMessage(invoker, path)
    ELSE SpawnErrorMessage(path, code)

\* The 'close' listener for a non-zero code: stderr || `... exited with code ${code}`
\* spawnLibreOffice uses stderr.trim() in place of stderr.
CloseRejection(invoker, chunks, code) ==
    LET text == IF invoker = "soffice" THEN TrimText(StderrText(chunks))
                ELSE StderrText(chunks)
    IN  IF text # <<>>
        THEN text
        ELSE CASE invoker = "pandoc" -> <<"Pandoc exited with code ", CodeText(code)>>
               [] invoker = "soffice" -> <<"LibreOffice exited with code ", CodeText(code)>>
               [] OTHER -> <<"markitdown exited with code ", CodeText(code)>>

\* Both invokers register an 'error' listener; an 'error' event without
\* one is thrown and ends the process.
HasErrorListener(invoker) == TRUE

ChildRunning == lastCall.op = "convert" /\ ~lastCall.closed

\* processTask up to the spawn of the converter for a pass-through source.
SpawnConverter(id, invoker, path) ==
    /\ lastCall.op = "none" \/ (lastCall.op = "convert" /\ lastCall.closed)
    /\ id \notin DOMAIN tasks
    /\ \A u \in TaskIds : u < id => u \in DOMAIN tasks
    /\ tasks' = setProcessing(createTask(tasks, ClientPayload(id)), id)
    /\ lastCall' = [op |-> "convert", id |-> id, invoker |-> invoker, path |-> path,
                    events |-> <<>>, stderr |-> <<>>, promise |-> "pending",
                    closed |-> FALSE, crashed |-> FALSE]
    /\ UNCHANGED pipelineVars

\* stderr.on('data')
StderrData(chunk) ==
    /\ ChildRunning
    /\ Len(lastCall.stderr) < MaxChunks
    /\ lastCall' = [lastCall EXCEPT !.stderr = Append(@, chunk),
                                    !.events = Append(@, <<"data", chunk>>)]
    /\ UNCHANGED <<tasks, pipelineVars>>

\* on('error'): the promise is rejected if it is still pending, and
\* processTask's catch block stores the error's message (147-150).
ErrorEvent(code) ==
    /\ ChildRunning
    /\ \A i \in 1..Len(lastCall.events) : lastCall.events[i][1] # "error"
    /\ lastCall' = [lastCall EXCEPT
                        !.events = Append(@, <<"error", code>>),
                        !.promise = IF @ = "pending" THEN "rejected" ELSE @,
                        !.crashed = ~HasErrorListener(lastCall.invoker)]
    /\ tasks' = IF lastCall.promise = "pending"
                THEN attachError(tasks, lastCall.id,
                                 ErrorRejection(lastCall.invoker, lastCall.path, code))
                ELSE tasks
    /\ UNCHANGED pipelineVars

\* on('close'): resolve for code 0, reject otherwise; a settled promise
\* stays as it is.  processTask then calls attachResult or attachError.
CloseEvent(code) ==
    /\ ChildRunning
    /\ lastCall' = [lastCall EXCEPT
                        !.events = Append(@, <<"close", code>>),
                        !.closed = TRUE,
                        !.promise = IF @ # "pending" THEN @
                                    ELSE IF code = 0 THEN "resolved" ELSE "rejected"]
    /\ tasks' = IF lastCall.promise # "pending"
                THEN tasks
                ELSE IF code = 0
                THEN attachResult(tasks, lastCall.id,
                                  OutputPath(SampleFilename, lastCall.id, "html"))
                ELSE attachError(tasks, lastCall.id,
                                 CloseRejection(lastCall.invoker, lastCall.stderr, code))
    /\ UNCHANGED pipelineVars

NextInvoker ==
    \/ \E id \in TaskIds, invoker \in Invokers, path \in ExecutablePaths :
           SpawnConverter(id, invoker, path)
    \/ \E chunk \in StderrChunks : StderrData(chunk)
    \/ \E code \in SpawnErrorCodes : ErrorEvent(code)
    \/ \E code \in ExitCodes : CloseEvent(code)

InvokerSpec == InitStore /\ [][NextInvoker]_vars

-----------------------------------------------------------------------------
(* Properties *)

Range(seq) == {seq[i] : i \in 1..Len(seq)}

Positions(seq, x) == {i \in 1..Len(seq) : seq[i] = x}

Count(seq, x) == Cardinality(Positions(seq, x))

IsPrefix(s, p) == Len(s) <= Len(p) /\ \A i \in 1..Len(s) : s[i] = p[i]

Terminal(t) == HasTask(t) /\ getTask(t).status \in {"completed", "failed"}

StatusPaths == {<<"pending", "processing", "completed">>,
                <<"pending", "processing", "failed">>}

\* C1: the statuses written to the store for a task follow
\* pending -> processing -> completed or pending -> processing -> failed,
\* with nothing after a terminal status and no step skipping processing;
\* the stored status is always the last one written.
C1_StatusTransitions ==
    \A t \in TaskIds :
        /\ \E p \in StatusPaths : IsPrefix(statusLog[t], p)
        /\ HasTask(t) <=> statusLog[t] # <<>>
        /\ HasTask(t) => getTask(t).status = statusLog[t][Len(statusLog[t])]

\* C1 witness: with two pipelines interleaved, one task went through to
\* completed and the other to failed.
C1_Witness ==
    \E t, u \in TaskIds :
        /\ statusLog[t] = <<"pending", "processing", "completed">>
        /\ statusLog[u] = <<"pending", "processing", "failed">>

\* C2: every record a status read can return has outputPath exactly when
\* its status is completed and error exactly when its status is failed.
C2_ResultFieldsTrackStatus ==
    \A id \in DOMAIN tasks :
        LET r == getTask(id)
        IN  /\ ("outputPath" \in DOMAIN r) <=> (r.status = "completed")
            /\ ("error" \in DOMAIN r) <=> (r.status = "failed")

\* C2 witness: a completed record with its path next to a failed record
\* with its message.
C2_Witness ==
    \E t, u \in DOMAIN tasks :
        /\ getTask(t).status = "completed" /\ "outputPath" \in DOMAIN getTask(t)
        /\ getTask(u).status = "failed" /\ "error" \in DOMAIN getTask(u)

\* C3: no failure escapes processTask: its promise never rejects, a
\* submission call rejects only when no task was created, and a pipeline
\* that ended with an error recorded it as failed with the message.
C3_PipelineFailuresAreRecorded ==
    \A t \in TaskIds :
        /\ pc[t] # "rejected"
        /\ call[t] = "rejected" => pc[t] = "notStarted"
        /\ (pc[t] = "resolved" /\ local[t].error # "none") =>
              /\ getTask(t).status = "failed"
              /\ getTask(t).error = local[t].error

\* C4: a pipeline that has ended left its task completed or failed (with
\* every awaited operation settling, each pipeline ends, so no task stays
\* pending or processing).
C4_EndedPipelineIsTerminal ==
    \A t \in TaskIds : pc[t] \in {"resolved", "rejected"} => Terminal(t)

\* C5: createTask with an id that is already registered fails and leaves
\* the existing record in place.
C5_CreateTaskRejectsKnownId ==
    (lastCall.op = "createTask" /\ lastCall.known) =>
        (lastCall.threw /\ tasks = lastCall.before)

TransitionOps == {"updateStatus", "setProcessing", "attachResult", "attachError"}

\* C6: updateStatus, setProcessing, attachResult and attachError on an id
\* that is not in the store return undefined, do not throw, and leave the
\* store as it was (no record created, none changed).
C6_UnknownIdIsNoOp ==
    (lastCall.op \in TransitionOps /\ ~lastCall.known) =>
        /\ lastCall.returned = "undefined"
        /\ ~lastCall.threw
        /\ tasks = lastCall.before

\* C6 witness: attachError was called on an unknown id while another
\* record was stored.
C6_Witness ==
    /\ lastCall.op = "attachError"
    /\ ~lastCall.known
    /\ tasks # <<>>

\* C7: when both the legacy normalizer and the source preparer returned a
\* prepared source, the preparer's release has ended before the
\* normalizer's release starts, and both have run when the pipeline ends.
C7_ReleaseOrder ==
    \A t \in TaskIds :
        LET log == releaseLog[t]
            both == local[t].legacy # "none" /\ local[t].prep # "none"
        IN  /\ both => \A i \in Positions(log, "legacy:start") :
                           \E j \in Positions(log, "preparation:end") : j < i
            /\ (both /\ pc[t] = "resolved") =>
                  /\ Positions(log, "preparation:end") # {}
                  /\ Positions(log, "legacy:end") # {}

\* C7 witness: a legacy-normalized task whose converter failed released
\* the pass-through preparation first and the scratch directory second.
C7_Witness ==
    \E t \in TaskIds :
        /\ pc[t] = "resolved"
        /\ local[t].legacy = "scratch"
        /\ local[t].prep = "passthrough"
        /\ local[t].error = "converter stderr or exit code"
        /\ releaseLog[t] = <<"preparation:start", "preparation:end",
                             "legacy:start", "rm", "legacy:end">>

ReleaseEvents == {"preparation:start", "preparation:end", "legacy:start",
                  "legacy:end", "rm", "unlink"}

\* C8: no release action runs twice, and when the pipeline has ended each
\* prepared source that was returned was released once, a scratch
\* directory that was created was removed once (also when the office
\* converter failed), and an intermediate file was unlinked once.
C8_ReleasedExactlyOnce ==
    \A t \in TaskIds :
        LET log == releaseLog[t]
        IN  /\ \A e \in ReleaseEvents : Count(log, e) <= 1
            /\ pc[t] = "resolved" =>
                  /\ local[t].legacy # "none" =>
                        Count(log, "legacy:start") = 1 /\ Count(log, "legacy:end") = 1
                  /\ local[t].prep # "none" =>
                        Count(log, "preparation:start") = 1 /\ Count(log, "preparation:end") = 1
                  /\ "soffice" \in Range(spawned[t]) => Count(log, "rm") = 1
                  /\ local[t].prep = "intermediate" => Count(log, "unlink") = 1

\* C8 witness: the office converter failed after the scratch directory was
\* created; the directory was removed once, by prepareLegacyOfficeSource,
\* and processTask released nothing.
C8_Witness ==
    \E t \in TaskIds :
        /\ pc[t] = "resolved"
        /\ local[t].error = "LibreOffice stderr or exit code"
        /\ releaseLog[t] = <<"rm">>
        /\ files[t].scratch = "absent"

\* C9: for a pdf source outside test mode, pandoc is spawned only after the
\* intermediate file was written, and once the task is completed or failed
\* the intermediate file is gone (unless its removal itself failed).
C9_IntermediateFileLifecycle ==
    \A t \in TaskIds :
        (req[t].sourceFormat = "pdf" /\ ~nodeEnvTest) =>
            /\ "pandoc" \in Range(spawned[t]) => local[t].prep = "intermediate"
            /\ (Terminal(t) /\ files[t].intermediate # "undeletable") =>
                  files[t].intermediate = "absent"

\* C10: in test mode no pipeline spawns an external executable.
C10_TestModeSpawnsNothing ==
    nodeEnvTest => \A t \in TaskIds : spawned[t] = <<>>

\* Awaited filesystem operations whose rejection is a filesystem failure.
FilesystemOps == {"mkdir", "mkdtemp", "readdir", "copyFile", "copyFallback", "rm", "unlink"}

\* Every filesystem operation request t awaited so far did what it was asked.
FilesystemWorked(t) ==
    \A i \in 1..Len(outcomes[t]) :
        outcomes[t][i][1] \in FilesystemOps => outcomes[t][i][2] \in {"fulfilled", "found"}

\* C11: in test mode, a submitted task with a string target format whose
\* filesystem operations all worked ends completed, and the file at its
\* outputPath holds exactly the bytes of the submitted source file.
C11_TestModeCopiesThrough ==
    nodeEnvTest =>
        \A t \in TaskIds :
            (/\ pc[t] \in {"resolved", "rejected"}
             /\ IsString(req[t].targetFormat)
             /\ FilesystemWorked(t))
            => /\ HasTask(t)
               /\ getTask(t).status = "completed"
               /\ "outputPath" \in DOMAIN getTask(t)
               /\ files[t].output = "source bytes"

\* The fields of a request that the caller chose.
SameRequest(t, u) ==
    /\ req[t].sourcePath = req[u].sourcePath
    /\ req[t].sourceFilename = req[u].sourceFilename
    /\ req[t].sourceFormat = req[u].sourceFormat
    /\ req[t].targetFormat = req[u].targetFormat

\* A stored record without the fields that embed the task id.
WithoutId(rec) == [k \in DOMAIN rec \ {"id", "outputPath"} |-> rec[k]]

\* Request t went through createConversionTask, request u through
\* convertSynchronously, with the same request and the same answers from
\* every awaited operation, and both submissions are over.
SyncAsyncPair(t, u) ==
    /\ req[t].mode = "async"
    /\ req[u].mode = "sync"
    /\ SameRequest(t, u)
    /\ outcomes[t] = outcomes[u]
    /\ pc[t] \in EndedPcs
    /\ pc[u] \in EndedPcs

\* C12: for the same request and the same answers of tools and filesystem,
\* convertSynchronously and createConversionTask write the same statuses,
\* spawn the same executables, run the same release actions and leave the
\* same record and files; the synchronous call has returned only when the
\* task is terminal, the asynchronous call as soon as the task is registered.
C12_SyncMatchesAsync ==
    /\ \A t, u \in TaskIds :
          SyncAsyncPair(t, u) =>
              /\ pc[t] = pc[u]
              /\ statusLog[t] = statusLog[u]
              /\ spawned[t] = spawned[u]
              /\ releaseLog[t] = releaseLog[u]
              /\ files[t] = files[u]
              /\ HasTask(t) <=> HasTask(u)
              /\ HasTask(t) =>
                    /\ WithoutId(getTask(t)) = WithoutId(getTask(u))
                    /\ ("outputPath" \in DOMAIN getTask(t)) <=>
                           ("outputPath" \in DOMAIN getTask(u))
    /\ \A t \in TaskIds :
          /\ (req[t].mode = "sync" /\ call[t] = "returned") => Terminal(t)
          /\ (req[t].mode = "async" /\ HasTask(t)) => call[t] = "returned"

\* C12 witness: an asynchronous and a synchronous submission of the same
\* legacy document, both converted by LibreOffice and completed, the
\* asynchronous call having returned while its task was still pending.
C12_Witness ==
    \E t, u \in TaskIds :
        /\ SyncAsyncPair(t, u)
        /\ local[t].legacy = "scratch"
        /\ local[u].legacy = "scratch"
        /\ getTask(t).status = "completed"
        /\ getTask(u).status = "completed"
        /\ call[u] = "returned"

\* The paths of request t were computed.
PathsBuilt(t) == local[t].outputPath # <<>>

\* C13: for any two distinct tasks, whatever their source file names and
\* target formats, the output path of one differs from the output path and
\* from the intermediate-file path of the other, and their scratch
\* directories differ.
C13_PathsAreDisjoint ==
    \A t, u \in TaskIds :
        (t # u /\ PathsBuilt(t) /\ PathsBuilt(u)) =>
            /\ local[t].outputPath # local[u].outputPath
            /\ local[t].outputPath # local[u].intermediatePath
            /\ local[t].tempDir # local[u].tempDir

\* The extension as the sentence words it, with "otherwise the lower-cased
\* target format" read literally.
ExtensionAsWorded(targetFormat) ==
    LET bare == ToLowerCase(StripLeadingDot(targetFormat))
    IN  CASE bare \in {"markdown", "md"} -> "md"
          [] bare \in {"text", "txt", "plain"} -> "txt"
          [] OTHER -> ToLowerCase(targetFormat)

\* The same with the leading dot removed in the last case too.
ExtensionWithDotRemoved(targetFormat) ==
    LET bare == ToLowerCase(StripLeadingDot(targetFormat))
    IN  CASE bare \in {"markdown", "md"} -> "md"
          [] bare \in {"text", "txt", "plain"} -> "txt"
          [] OTHER -> bare

\* C19 as worded: the output file name is <stem>-<taskId>.<ext>, ext being
\* md for markdown/md, txt for text/txt/plain (any letter case, with or
\* without a leading dot), otherwise the lower-cased target format.
C19_OutputFilenameAsWorded ==
    \A t \in TaskIds :
        PathsBuilt(t) =>
            local[t].outputFilename =
                [name |-> ParsedName(req[t].sourceFilename), id |-> t, sep |-> ".",
                 tail |-> ExtensionAsWorded(req[t].targetFormat)]

\* C19 amended: the same, the last case being the lower-cased target
\* format with one leading dot removed.
C19_OutputFilename ==
    \A t \in TaskIds :
        PathsBuilt(t) =>
            local[t].outputFilename =
                [name |-> ParsedName(req[t].sourceFilename), id |-> t, sep |-> ".",
                 tail |-> ExtensionWithDotRemoved(req[t].targetFormat)]

\* C19 witness: one task asked for ".HTML" and got the extension html,
\* another asked for "Markdown" on a file name with two extensions and got md.
C19_Witness ==
    \E t, u \in TaskIds :
        /\ PathsBuilt(t) /\ PathsBuilt(u)
        /\ req[t].targetFormat = ".HTML"
        /\ local[t].outputFilename.tail = "html"
        /\ req[u].targetFormat = "Markdown"
        /\ req[u].sourceFilename = "archive.tar.gz"
        /\ local[u].outputFilename = [name |-> "archive.tar", id |-> u, sep |-> ".",
                                      tail |-> "md"]

\* prepareLegacyOfficeSource of request t has gone past its three tests
\* (lines 170-183).
NormalizerDecided(t) ==
    pc[t] \notin {"unborn", "notStarted", "rejected", "processTask",
                  "prepareLegacyOfficeSource", "access"}

\* One of the three pass-through conditions holds for request t: no legacy
\* mapping, no configured path, or the availability check answered false.
PassThroughCase(t) ==
    \/ getLegacyOfficeMapping(req[t].sourceFormat) = "undefined"
    \/ ~sofficePath
    \/ local[t].available = "false"

LegacyErrors == {"mkdtemp failed", "LibreOffice executable not found",
                 "LibreOffice stderr or exit code",
                 "LibreOffice conversion completed without producing output",
                 "readdir failed"}

\* C14: when the declared source format is not doc/ppt/xls, or no
\* office-converter path is configured, or the executable was not found,
\* the normalizer returns a pass-through prepared source and raises no
\* error; no scratch directory is created and no office converter spawned.
C14_PassThroughCases ==
    \A t \in TaskIds :
        (NormalizerDecided(t) /\ PassThroughCase(t)) =>
            /\ local[t].legacy = "passthrough"
            /\ EffectiveSourceFormat(t) = req[t].sourceFormat
            /\ local[t].error \notin LegacyErrors
            /\ local[t].tempDir = <<>>
            /\ files[t].scratch = "absent"
            /\ "soffice" \notin Range(spawned[t])
            /\ \A i \in 1..Len(outcomes[t]) : outcomes[t][i][1] # "mkdtemp"
            /\ "rm" \notin Range(releaseLog[t])

\* C14 witness: a path is configured and one legacy document passed
\* through because the executable was not found, another request passed
\* through because its format has no legacy mapping; both completed.
C14_Witness ==
    \E t, u \in TaskIds :
        /\ sofficePath
        /\ getLegacyOfficeMapping(req[t].sourceFormat) # "undefined"
        /\ local[t].available = "false"
        /\ getLegacyOfficeMapping(req[u].sourceFormat) = "undefined"
        /\ pc[t] = "resolved" /\ pc[u] = "resolved"
        /\ getTask(t).status = "completed"
        /\ getTask(u).status = "completed"

LegacyConversionErrors == {"LibreOffice executable not found",
                           "LibreOffice stderr or exit code",
                           "LibreOffice conversion completed without producing output"}

\* The office converter of request t failed after its scratch directory was
\* created, and the failure has reached processTask's catch block.
LegacyConversionFailed(t) ==
    /\ local[t].error \in LegacyConversionErrors
    /\ pc[t] \in {"attach", "resolved"}

\* What C15 says besides the removal: the normalizer returned nothing, no
\* later stage ran, and the task ends failed with the normalizer's error.
NothingAfterLegacyFailure(t) ==
    /\ local[t].legacy = "none"
    /\ local[t].strategy = "none"
    /\ local[t].prep = "none"
    /\ spawned[t] = <<"soffice">>
    /\ releaseLog[t] = <<"rm">>
    /\ files[t].output = "absent"
    /\ files[t].intermediate = "absent"
    /\ pc[t] = "resolved" =>
          /\ getTask(t).status = "failed"
          /\ getTask(t).error = local[t].error
          /\ "outputPath" \notin DOMAIN getTask(t)

AccessChecks ==
    {t \in TaskIds : \/ pc[t] = "access"
                     \/ \E i \in 1..Len(outcomes[t]) : outcomes[t][i][1] = "access"}

\* C16: for one ConversionService instance, under any interleaving of
\* concurrent legacy-format tasks, the existence check of the office
\* converter is performed at most once, and an availability that was false
\* (some task was answered false) is never true afterwards.
C16_AvailabilityCheckedOnce ==
    /\ Cardinality(AccessChecks) <= 1
    /\ ~(sofficeAvailability = "true" /\ \E t \in TaskIds : local[t].available = "false")

\* The task the last download asked for is completed and has an outputPath.
DownloadOfCompleted ==
    /\ lastCall.id \in DOMAIN tasks
    /\ tasks[lastCall.id].status = "completed"
    /\ "outputPath" \in DOMAIN tasks[lastCall.id]

\* C17: a download answers 404 when the task id is unknown, 409 whenever
\* the task exists but is not completed or has no outputPath, and the file
\* only when the task is completed; a completed task whose output file is
\* missing on disk gets 404, never 409.
C17_DownloadOutcomes ==
    lastCall.op = "download" =>
        LET id == lastCall.id
            response == lastCall.response
        IN  /\ id \notin DOMAIN tasks => response.status = 404
            /\ (id \in DOMAIN tasks /\ ~DownloadOfCompleted) => response.status = 409
            /\ response.status = 409 => (id \in DOMAIN tasks /\ ~DownloadOfCompleted)
            /\ response.status = 200 =>
                  /\ DownloadOfCompleted
                  /\ existsSync(tasks[id].outputPath)
                  /\ response.body = FileContent(tasks[id].outputPath)
            /\ (DownloadOfCompleted /\ ~existsSync(tasks[id].outputPath)) =>
                  response.status = 404

\* C17 witness: a download of a completed task whose output file is not on
\* disk was answered 404.
C17_Witness ==
    /\ lastCall.op = "download"
    /\ DownloadOfCompleted
    /\ ~existsSync(tasks[lastCall.id].outputPath)
    /\ lastCall.response.status = 404

\* C18: a query for a task id that was never registered returns not-found
\* (getTask returns undefined, the status route answers 404), does not
\* throw, and creates or changes no record.
C18_UnknownTaskQuery ==
    (lastCall.op = "status" /\ lastCall.id \notin DOMAIN lastCall.before) =>
        /\ lastCall.returned = "undefined"
        /\ lastCall.response.status = 404
        /\ ~lastCall.response.threw
        /\ tasks = lastCall.before
        /\ lastCall.id \notin DOMAIN tasks

\* C18 witness: with one task registered, the status of an id that was
\* never registered was queried and answered 404.
C18_Witness ==
    /\ lastCall.op = "status"
    /\ lastCall.id = UnknownId
    /\ lastCall.response.status = 404
    /\ DOMAIN tasks # {}

\* An absolute path lies inside the storage root.
InsideStorageRoot(path) ==
    /\ Len(path) >= Len(STORAGE_ROOT)
    /\ SubSeq(path, 1, Len(STORAGE_ROOT)) = STORAGE_ROOT

\* The conditions C20 names, on a request body.
AcceptableBody(body) ==
    /\ body.sourcePath # Missing
    /\ body.sourceFormat # Missing
    /\ body.targetFormat # Missing
    /\ IsString(body.sourcePath)
    /\ ~isAbsolute(body.sourcePath)
    /\ InsideStorageRoot(pathResolve(STORAGE_ROOT, normalizedRelativePath(body.sourcePath)))
    /\ sourceExistsSync(pathResolve(STORAGE_ROOT, normalizedRelativePath(body.sourcePath)))

\* C20: POST /convert creates a task only when sourcePath, sourceFormat and
\* targetFormat are present, sourcePath is not absolute, resolves inside
\* the storage root and exists; a request rejected with 400 or 404
\* registers no task and starts no pipeline; the source path of every
\* accepted request lies inside the storage root.
C20_ConvertValidation ==
    /\ \A t \in TaskIds :
          pc[t] # "unborn" =>
              /\ InsideStorageRoot(req[t].sourcePath)
              /\ sourceExistsSync(req[t].sourcePath)
    /\ lastCall.op = "convert" =>
          /\ (DOMAIN tasks # lastCall.registered \/ Born # lastCall.born) =>
                 AcceptableBody(lastCall.body)
          /\ lastCall.status = 202 => AcceptableBody(lastCall.body)
          /\ lastCall.status \in {400, 404} =>
                 /\ DOMAIN tasks = lastCall.registered
                 /\ Born = lastCall.born

\* C20 witness: after an accepted request whose task completed, a request
\* whose path climbs out of the storage root with backslashes was rejected
\* with 400 and left the store as it was.
C20_Witness ==
    /\ lastCall.op = "convert"
    /\ lastCall.status = 400
    /\ lastCall.body.sourcePath = "uploads\\..\\..\\etc\\passwd"
    /\ lastCall.body.sourceFormat # Missing
    /\ lastCall.body.targetFormat # Missing
    /\ \E t \in TaskIds : HasTask(t) /\ getTask(t).status = "completed"
    /\ DOMAIN tasks = lastCall.registered

-----------------------------------------------------------------------------
(* The task a submission hands back *)

\* C21: an asynchronous submission has returned as soon as its task exists,
\* whatever the pipeline does afterwards, and the task it returned is the
\* pending record of that id, with neither an outputPath nor an error, also
\* after the store's record has moved on.
C21_AsyncReturnsPendingSnapshot ==
    \A t \in TaskIds :
        req[t].mode = "async" =>
            /\ HasTask(t) <=> call[t] = "returned"
            /\ call[t] = "returned" =>
                  /\ returned[t].status = "pending"
                  /\ returned[t].id = t
                  /\ "outputPath" \notin DOMAIN returned[t]
                  /\ "error" \notin DOMAIN returned[t]

\* An asynchronous submission whose task has completed with an output path
\* after the call returned the pending snapshot.
C21_Witness ==
    \E t \in TaskIds :
        /\ req[t].mode = "async"
        /\ call[t] = "returned"
        /\ returned[t].status = "pending"
        /\ HasTask(t)
        /\ tasks[t].status = "completed"
        /\ "outputPath" \in DOMAIN tasks[t]

-----------------------------------------------------------------------------
(* No retry *)

\* The operations of outcomes[t] with the given name.
OutcomesOf(t, op) == {i \in 1..Len(outcomes[t]) : outcomes[t][i][1] = op}

\* Everything the pipeline of request t reads or writes for itself.
PipelineOf(t) == <<pc[t], local[t], files[t], spawned[t], releaseLog[t],
                   statusLog[t], outcomes[t]>>

\* C23: no stage is retried: each external tool is spawned at most once per
\* task, the PDF extraction is awaited at most once, and once the store
\* holds the task as failed its pipeline has ended and takes no further step.
C23_NoRetry ==
    /\ [](\A t \in TaskIds :
            /\ \A tool \in {"soffice", "pandoc", "markitdown"} :
                   Count(spawned[t], tool) <= 1
            /\ \A op \in {"extractPdf", "writeFile", "soffice", "pandoc", "markitdown"} :
                   Cardinality(OutcomesOf(t, op)) <= 1
            /\ (HasTask(t) /\ getTask(t).status = "failed") => pc[t] = "resolved")
    /\ [][\A t \in TaskIds :
            (HasTask(t) /\ getTask(t).status = "failed") =>
                /\ PipelineOf(t)' = PipelineOf(t)
                /\ tasks'[t] = tasks[t]]_vars

\* A task failed after LibreOffice and pandoc had each been spawned once,
\* and one whose PDF extraction failed.
C23_Witness ==
    \E t, u \in TaskIds :
        /\ HasTask(t) /\ getTask(t).status = "failed"
        /\ spawned[t] = <<"soffice", "pandoc">>
        /\ HasTask(u) /\ getTask(u).status = "failed"
        /\ Cardinality(OutcomesOf(u, "extractPdf")) = 1
        /\ local[u].error = "PDF extraction failed"

-----------------------------------------------------------------------------
(* Strategy and converter arguments *)

\* C24: the strategy resolver answers "simulation" exactly in test mode and
\* "pandoc" otherwise, for every target format including markdown and md;
\* no task is handed to the shortcut converter.
C24_StrategyResolution ==
    /\ \A f \in FormatTargetFormats :
          /\ resolveStrategy(nodeEnvTest, f) = "simulation" <=> nodeEnvTest
          /\ ~nodeEnvTest => resolveStrategy(nodeEnvTest, f) = "pandoc"
    /\ \A t \in TaskIds :
          /\ local[t].strategy # "none" =>
                /\ local[t].strategy = "simulation" <=> nodeEnvTest
                /\ ~nodeEnvTest => local[t].strategy = "pandoc"
          /\ local[t].strategy # "markitdown"
          /\ pc[t] # "markitdown"
          /\ "markitdown" \notin Range(spawned[t])

\* Outside test mode a request for markdown output went to pandoc.
C24_Witness ==
    \E t \in TaskIds :
        /\ ~nodeEnvTest
        /\ req[t].targetFormat \in {"markdown", "md"}
        /\ local[t].strategy = "pandoc"
        /\ spawned[t] = <<"pandoc">>
        /\ Terminal(t)

\* The alias table of the pandoc format names.
PandocName(name) ==
    CASE name \in {"markdown", "md"} -> "markdown"
      [] name \in {"text", "txt", "plain"} -> "plain"
      [] name = "htm" -> "html"
      [] OTHER -> name

\* The format and path of the prepared source of request t, as the stages
\* before the invoker left them.
PreparedFormat(t) ==
    CASE local[t].prep = "intermediate" -> "markdown"
      [] local[t].legacy = "scratch" -> getLegacyOfficeMapping(req[t].sourceFormat)
      [] OTHER -> req[t].sourceFormat

PreparedPathIsRight(t, path) ==
    CASE local[t].prep = "intermediate" ->
             path = buildIntermediateMarkdownPath(req[t].sourceFilename, t)
      [] local[t].legacy = "scratch" ->
             /\ Len(path) = Len(local[t].tempDir) + 1
             /\ SubSeq(path, 1, Len(local[t].tempDir)) = local[t].tempDir
      [] OTHER -> path = req[t].sourcePath

\* The arguments of every pandoc process have the shape
\* --from F --to T <prepared source> --output <outputPath>, a pdf source
\* going through the intermediate file and a legacy source through the
\* normalizer's file.
PandocArgumentsShape(t) ==
    /\ Len(local[t].args) = 7
    /\ local[t].args[1] = "--from"
    /\ local[t].args[3] = "--to"
    /\ PreparedPathIsRight(t, local[t].args[5])
    /\ local[t].args[6] = "--output"
    /\ local[t].args[7] = local[t].outputPath
    /\ ToLowerCase(req[t].sourceFormat) = "pdf" <=> local[t].prep = "intermediate"
    /\ getLegacyOfficeMapping(req[t].sourceFormat) = "undefined" =>
           local[t].legacy = "passthrough"

\* C27 as worded: F and T are the formats under the alias table, every name
\* outside the table passed through unchanged.
C27_PandocArgumentsAsWorded ==
    \A t \in TaskIds :
        "pandoc" \in Range(spawned[t]) =>
            /\ PandocArgumentsShape(t)
            /\ local[t].args[2] = PandocName(PreparedFormat(t))
            /\ local[t].args[4] = PandocName(req[t].targetFormat)

\* C27: as above, with F and T being the trimmed, lower-cased formats under
\* the alias table; a name outside the table is passed trimmed and
\* lower-cased.
C27_PandocArguments ==
    \A t \in TaskIds :
        "pandoc" \in Range(spawned[t]) =>
            /\ PandocArgumentsShape(t)
            /\ local[t].args[2] = PandocName(ToLowerCase(Trim(PreparedFormat(t))))
            /\ local[t].args[4] = PandocName(ToLowerCase(Trim(req[t].targetFormat)))

\* pandoc was spawned for a DOCX source and an HTM target.
C27_Witness ==
    \E t \in TaskIds :
        /\ req[t].sourceFormat = "DOCX"
        /\ req[t].targetFormat = "HTM"
        /\ spawned[t] = <<"pandoc">>
        /\ local[t].args = <<"--from", "docx", "--to", "html", SamplePath, "--output",
                             OutputPath(SampleFilename, t, "HTM")>>

-----------------------------------------------------------------------------
(* One pipeline per task *)

\* setProcessing, attachResult and attachError calls made for request t,
\* counted by the statuses they wrote.
CallsOf(t, status) == Count(statusLog[t], status)

\* C25: the pipeline of a task id is run once: setProcessing is called at
\* most once, attachResult and attachError together at most once and only
\* after setProcessing, and a pipeline that has ended has called
\* setProcessing once and exactly one of attachResult / attachError once.
C25_ExactlyOneTerminalCall ==
    \A t \in TaskIds :
        /\ CallsOf(t, "processing") <= 1
        /\ CallsOf(t, "completed") + CallsOf(t, "failed") <= 1
        /\ CallsOf(t, "completed") + CallsOf(t, "failed") = 1 =>
               /\ CallsOf(t, "processing") = 1
               /\ statusLog[t][Len(statusLog[t])] \in {"completed", "failed"}
        /\ pc[t] \in {"resolved", "rejected"} =>
               /\ CallsOf(t, "processing") = 1
               /\ CallsOf(t, "completed") + CallsOf(t, "failed") = 1

-----------------------------------------------------------------------------
(* PDF staging *)

\* The PDF extraction of request t (readFile and extractText) was rejected.
ExtractionFailed(t) ==
    \E i \in 1..Len(outcomes[t]) : outcomes[t][i] = <<"extractPdf", "rejected">>

\* C26: when the PDF extraction of a task failed, no process of any kind was
\* or is spawned for it, the pipeline goes straight to its end without an
\* invoker step, and the task ends failed with the extraction's error.
C26_ExtractionFailureSpawnsNothing ==
    \A t \in TaskIds :
        ExtractionFailed(t) =>
            /\ IsPdf(req[t].sourceFormat)
            /\ spawned[t] = <<>>
            /\ local[t].args = <<>>
            /\ pc[t] \in {"legacyCleanup", "attach", "resolved"}
            /\ \A op \in {"soffice", "pandoc", "markitdown", "copyFile"} :
                   OutcomesOf(t, op) = {}
            /\ pc[t] = "resolved" =>
                   /\ getTask(t).status = "failed"
                   /\ getTask(t).error = "PDF extraction failed"

\* A pdf task has ended failed on its extraction.
C26_Witness ==
    \E t \in TaskIds :
        /\ ExtractionFailed(t)
        /\ pc[t] = "resolved"
        /\ getTask(t).status = "failed"
        /\ spawned[t] = <<>>

-----------------------------------------------------------------------------
(* Converter failures *)

\* The events of the child process that can settle the promise.
SettlingEvents ==
    {i \in 1..Len(lastCall.events) : lastCall.events[i][1] \in {"error", "close"}}

\* The first of them.
FirstSettling ==
    CHOOSE i \in SettlingEvents : \A j \in SettlingEvents : i <= j

\* The stderr pieces received before event i, empty ones dropped.
StderrBefore(i) ==
    LET data == SelectSeq(SubSeq(lastCall.events, 1, i - 1), LAMBDA e : e[1] = "data")
    IN  SelectSeq([k \in 1..Len(data) |-> data[k][2]], LAMBDA c : c # "")

\* The three kinds of message an invoker can leave, for a path and an exit code.
FailureMessages(invoker, path, code, text) ==
    << IF invoker = "pandoc"
       THEN <<"Failed to launch Pandoc at \"", path,
              "\". Ensure Pandoc is installed on the server and the executable path is reachable (set PANDOC_PATH if necessary).">>
       ELSE <<"Markitdown executable not found at \"", path,
              "\". Install markitdown or set MARKITDOWN_PATH to the executable location.">>,
       IF text # <<>>
       THEN text
       ELSE <<IF invoker = "pandoc" THEN "Pandoc exited with code "
              ELSE "markitdown exited with code ", CodeText(code)>>,
       <<"spawn ", path, " ", "EACCES">> >>

\* C28: for both invokers, whatever else the child process emits, the
\* first error or close event decides the task: ENOENT stores the
\* not-found message with the configured path, a non-zero exit stores the
\* stderr text or, when that is empty, the exit-code message, any other
\* spawn error stores its own message; the three messages differ, the
\* stored error is the message itself, and the service goes on.
C28_ConverterFailures ==
    lastCall.op = "convert" =>
        LET id == lastCall.id
            stored == tasks[id]
        IN  /\ ~lastCall.crashed
            /\ SettlingEvents = {} <=> stored.status = "processing"
            /\ SettlingEvents # {} =>
                  LET e == lastCall.events[FirstSettling]
                      messages == FailureMessages(lastCall.invoker, lastCall.path,
                                                  IF e[1] = "close" THEN e[2] ELSE 1,
                                                  StderrBefore(FirstSettling))
                  IN  /\ messages[1] # messages[2]
                      /\ messages[1] # messages[3]
                      /\ messages[2] # messages[3]
                      /\ messages[1][2] = lastCall.path
                      /\ IF e[1] = "close" /\ e[2] = 0
                         THEN stored.status = "completed" /\ "error" \notin DOMAIN stored
                         ELSE /\ stored.status = "failed"
                              /\ stored.error =
                                    IF e[1] = "close" THEN messages[2]
                                    ELSE IF e[2] = "ENOENT" THEN messages[1]
                                    ELSE messages[3]

\* The store holds a task failed on a missing executable, and the current
\* child process exited non-zero with an empty stderr after a later task's
\* spawn: the service went on after the first failure.
C28_Witness ==
    /\ lastCall.op = "convert"
    /\ lastCall.id > 1
    /\ lastCall.closed
    /\ lastCall.stderr = <<"">>
    /\ tasks[lastCall.id].status = "failed"
    /\ tasks[lastCall.id].error[1] \in {"Pandoc exited with code ",
                                        "markitdown exited with code "}
    /\ tasks[1].status = "failed"
    /\ Len(tasks[1].error) = 3
    /\ tasks[1].error[2] \in ExecutablePaths

-----------------------------------------------------------------------------
(* Simulation *)

\* The answers request t got from the operation op, in order.
AnswersOf(t, op) ==
    LET hits == SelectSeq(outcomes[t], LAMBDA o : o[1] = op)
    IN  [i \in 1..Len(hits) |-> hits[i][2]]

\* The invoker step of request t is over.
InvokerOver(t) ==
    pc[t] \in {"preparationCleanup", "unlink", "legacyCleanup", "rm", "attach", "resolved"}

\* C29: a task on the simulation path spawns no converter; the prepared
\* source is copied once, the UTF-8 fallback runs once and only after the
\* copy failed; the task ends failed exactly when both failed and completed
\* when either succeeded.
C29_SimulationCopiesOrFallsBack ==
    \A t \in TaskIds :
        local[t].strategy = "simulation" =>
            /\ Range(spawned[t]) \subseteq {"soffice"}
            /\ local[t].args = <<>>
            /\ OutcomesOf(t, "pandoc") \cup OutcomesOf(t, "markitdown") = {}
            /\ Len(AnswersOf(t, "copyFile")) <= 1
            /\ Len(AnswersOf(t, "copyFallback")) <= 1
            /\ AnswersOf(t, "copyFallback") # <<>> =>
                   AnswersOf(t, "copyFile") = <<"rejected">>
            /\ InvokerOver(t) =>
                   /\ Len(AnswersOf(t, "copyFile")) = 1
                   /\ AnswersOf(t, "copyFile") = <<"rejected">> =>
                          Len(AnswersOf(t, "copyFallback")) = 1
            /\ pc[t] = "resolved" =>
                   /\ getTask(t).status = "failed"
                          <=> /\ AnswersOf(t, "copyFile") = <<"rejected">>
                              /\ AnswersOf(t, "copyFallback") = <<"rejected">>
                   /\ getTask(t).status = "completed"
                          <=> \/ AnswersOf(t, "copyFile") = <<"fulfilled">>
                              \/ AnswersOf(t, "copyFallback") = <<"fulfilled">>
                   /\ getTask(t).status = "completed" => files[t].output # "absent"

\* One simulated task completed through the fallback, another failed
\* because copy and fallback both failed.
C29_Witness ==
    \E t, u \in TaskIds :
        /\ local[t].strategy = "simulation"
        /\ AnswersOf(t, "copyFile") = <<"rejected">>
        /\ AnswersOf(t, "copyFallback") = <<"fulfilled">>
        /\ pc[t] = "resolved" /\ getTask(t).status = "completed"
        /\ local[u].strategy = "simulation"
        /\ AnswersOf(u, "copyFallback") = <<"rejected">>
        /\ pc[u] = "resolved" /\ getTask(u).status = "failed"

-----------------------------------------------------------------------------
(* The status route's rendering *)

\* The last call was a status query for a task the store held.
StatusOfKnownTask ==
    lastCall.op = "status" /\ lastCall.id \in DOMAIN lastCall.before

\* What the status answer says besides the link: no link for a task that is
\* pending, processing or failed, the stored error rendered as it is, and
\* the rendered status that of the store.
RenderedAsStored ==
    LET stored == lastCall.before[lastCall.id]
        rendered == lastCall.response.task
    IN  /\ lastCall.response.status = 200
        /\ rendered.id = lastCall.id
        /\ rendered.status = stored.status
        /\ stored.status \in {"pending", "processing", "failed"} =>
               "downloadUrl" \notin DOMAIN rendered
        /\ "downloadUrl" \in DOMAIN rendered =>
               rendered.downloadUrl[Len(rendered.downloadUrl)] = lastCall.id
        /\ stored.status = "failed" =>
               /\ "error" \in DOMAIN stored <=> "error" \in DOMAIN rendered
               /\ "error" \in DOMAIN stored => rendered.error = stored.error

-----------------------------------------------------------------------------
(* What a transition leaves alone *)

\* The fields of a record that are set at creation.
CreationFields == {"id", "sourcePath", "sourceRelativePath", "sourceFormat",
                   "targetFormat", "sourceFilename", "createdAt"}

\* C31: whatever steps the pipeline has taken, the stored record carries
\* the creation fields of the record createTask handed out, which are the
\* request's; the only other fields are status, updatedAt and outputPath or
\* error.  The format and path the legacy normalizer and the PDF
\* preparation hand on live in the pipeline only.
C31_CreationFieldsAreKept ==
    \A t \in TaskIds :
        HasTask(t) =>
            /\ \A f \in CreationFields : getTask(t)[f] = returned[t][f]
            /\ getTask(t).id = t
            /\ getTask(t).sourcePath = req[t].sourcePath
            /\ getTask(t).sourceRelativePath = req[t].sourceRelativePath
            /\ getTask(t).sourceFormat = req[t].sourceFormat
            /\ getTask(t).targetFormat = req[t].targetFormat
            /\ getTask(t).sourceFilename = req[t].sourceFilename
            /\ DOMAIN getTask(t) \subseteq
                   CreationFields \cup {"status", "updatedAt", "outputPath", "error"}
            /\ ~({"outputPath", "error"} \subseteq DOMAIN getTask(t))

\* A doc source converted by LibreOffice and then by pandoc has completed
\* later than it was created: the pipeline worked on docx and the scratch
\* file, the record still names doc and the upload.
C31_Witness ==
    \E t \in TaskIds :
        /\ HasTask(t)
        /\ getTask(t).status = "completed"
        /\ local[t].legacy = "scratch"
        /\ EffectiveSourceFormat(t) = "docx"
        /\ getTask(t).sourceFormat = "doc"
        /\ EffectiveSourcePath(t) # getTask(t).sourcePath
        /\ getTask(t).createdAt < getTask(t).updatedAt

\* The last call was a transition of a task the store held.
TransitionMade ==
    /\ lastCall.op \in {"setProcessing", "attachResult", "attachError"}
    /\ lastCall.returned = "task"

\* C32: a transition stamps the record with the time of the call, which is
\* not earlier than the stamp of the record it replaced, and keeps
\* createdAt; in every stored record updatedAt is not earlier than
\* createdAt.
C32_UpdatedAtFollowsTransitions ==
    /\ \A id \in DOMAIN tasks :
          /\ tasks[id].createdAt <= tasks[id].updatedAt
          /\ tasks[id].updatedAt <= now
    /\ TransitionMade =>
          LET old == lastCall.before[lastCall.id]
              new == tasks[lastCall.id]
          IN  /\ new.updatedAt = lastCall.at
              /\ old.updatedAt <= new.updatedAt
              /\ new.createdAt = old.createdAt

\* A task created at time 0 was marked processing at time 1 and received
\* its result at time 2.
C32_Witness ==
    /\ TransitionMade
    /\ lastCall.op = "attachResult"
    /\ lastCall.before[lastCall.id].status = "processing"
    /\ lastCall.before[lastCall.id].updatedAt = 1
    /\ tasks[lastCall.id].createdAt = 0
    /\ tasks[lastCall.id].updatedAt = 2

-----------------------------------------------------------------------------
(* Release before the terminal status *)

\* C33: when the store shows a task as completed or failed, its pipeline
\* has ended, every release action it started has finished, and its scratch
\* directory and intermediate file are gone or were the object of a removal
\* that failed.
C33_TerminalAfterRelease ==
    \A t \in TaskIds :
        Terminal(t) =>
            /\ pc[t] = "resolved"
            /\ Count(releaseLog[t], "preparation:start")
                   = Count(releaseLog[t], "preparation:end")
            /\ Count(releaseLog[t], "legacy:start") = Count(releaseLog[t], "legacy:end")
            /\ files[t].scratch \in {"absent", "undeletable"}
            /\ files[t].intermediate \in {"absent", "undeletable"}

-----------------------------------------------------------------------------
(* Status reads issued while conversions are in flight *)

\* One request is submitted, in either mode.
SubmitObserved(t) ==
    /\ \A u \in TaskIds : pc[u] = "unborn"
    /\ \E r \in Requests, mode \in Modes, mkdirOk \in BOOLEAN :
           Register(t, r, mode, mkdirOk)
    /\ UNCHANGED lastCall

\* Another request's handler calls getTask(id) and reads the status.  A
\* handler starts only when the event loop is free.
ObserveStatus(id) ==
    /\ Idle
    /\ lastCall' = [op |-> "getTask", id |-> id,
                    returned |-> getTaskReturns(tasks, id),
                    status |-> IF HasTask(id) THEN getTask(id).status ELSE "undefined",
                    during |-> pc[id]]
    /\ UNCHANGED tasks
    /\ UNCHANGED pipelineVars

NextObserved ==
    \E t \in TaskIds :
        \/ SubmitObserved(t)
        \/ PipelineStep(t)
        \/ ObserveStatus(t)

ObservedSpec == Init /\ [][NextObserved]_vars

\* C34: a status read made by another request never sees pending; a task it
\* finds is processing, completed or failed.
C34_PendingIsNeverObserved ==
    (lastCall.op = "getTask" /\ lastCall.returned = "task")
        => lastCall.status \in {"processing", "completed", "failed"}

\* A read made while the conversion of a synchronous request was waiting for
\* its converter found the task processing.
C34_Witness ==
    /\ lastCall.op = "getTask"
    /\ lastCall.returned = "task"
    /\ req[lastCall.id].mode = "sync"
    /\ lastCall.during \notin {"resolved", "unborn"}
    /\ lastCall.status = "processing"
    /\ statusLog[lastCall.id][1] = "pending"

-----------------------------------------------------------------------------
(* Containment of the computed paths *)

\* The path lies below the directory.
IsInside(directory, path) ==
    /\ Len(path) > Len(directory)
    /\ SubSeq(path, 1, Len(directory)) = directory

\* C35: whatever source file name and target format the caller supplied,
\* the output path and the intermediate-file path of a task lie inside the
\* output directory.
C35_PathsStayInsideOutputDirectory ==
    \A t \in TaskIds :
        PathsBuilt(t) =>
            /\ IsInside(outputDirectory, local[t].outputPath)
            /\ IsInside(outputDirectory, local[t].intermediatePath)

-----------------------------------------------------------------------------
(* The promise around a child process, for the three invokers and any     *)
(* order of the child's events                                             *)

MaxEvents == 3

ChildInvokers == {"soffice", "pandoc", "markitdown"}

ChildChunks == {"", "\n", "cannot read input\n"}

ChildExitCodes == {0, 1, NullCode}

PendingPromise == [state |-> "pending", reason |-> <<>>]

\* A promise whose resolve and reject would act again after settlement.
Settle_LastCallWins(promise, outcome) == outcome

\* resolve(...) or reject(...) called on the promise: the first call
\* settles it, a later call does nothing.
Settle(promise, outcome) ==
    IF promise.state = "pending" THEN outcome ELSE promise

\* What the 'close' listener calls.
CloseOutcome(invoker, chunks, code) ==
    IF code = 0
    THEN [state |-> "resolved", reason |-> <<>>]
    ELSE [state |-> "rejected", reason |-> CloseRejection(invoker, chunks, code)]

\* What the 'error' listener calls.
ErrorOutcome(invoker, path, code) ==
    [state |-> "rejected", reason |-> ErrorRejection(invoker, path, code)]

\* The awaiting code resumes when the promise changes: a rejection reaches
\* processTask's catch block (for the office converter through the
\* normalizer's catch block, which rethrows it) and a resolution of the
\* primary or shortcut converter reaches attachResult; after the office
\* converter the pipeline goes on with the task still processing.
Resume(store, id, invoker, before, after) ==
    IF after = before
    THEN store
    ELSE IF after.state = "rejected"
    THEN attachError(store, id, after.reason)
    ELSE IF invoker = "soffice"
    THEN store
    ELSE attachResult(store, id, OutputPath(SampleFilename, id, "html"))

ChildObserved == lastCall.op = "spawn"

\* spawn(executable, args) inside new Promise(...), for a task that
\* processTask has marked processing: the one invocation under observation.
SpawnChild(id, invoker, path) ==
    /\ lastCall.op = "none"
    /\ id \notin DOMAIN tasks
    /\ \A u \in TaskIds : u < id => u \in DOMAIN tasks
    /\ tasks' = setProcessing(createTask(tasks, ClientPayload(id)), id)
    /\ lastCall' = [op |-> "spawn", id |-> id, invoker |-> invoker, path |-> path,
                    events |-> <<>>, stderr |-> <<>>, promise |-> PendingPromise,
                    settlements |-> 0, closed |-> FALSE]
    /\ UNCHANGED pipelineVars

\* stderr.on('data'): the stream ends before 'close'.
ChildStderr(chunk) ==
    /\ ChildObserved
    /\ ~lastCall.closed
    /\ Len(lastCall.events) < MaxEvents
    /\ lastCall' = [lastCall EXCEPT !.stderr = Append(@, chunk),
                                    !.events = Append(@, <<"data", chunk>>)]
    /\ UNCHANGED <<tasks, pipelineVars>>

\* on('error'), at any time and any number of times.
ChildError(code) ==
    /\ ChildObserved
    /\ Len(lastCall.events) < MaxEvents
    /\ LET after == Settle(lastCall.promise,
                           ErrorOutcome(lastCall.invoker, lastCall.path, code))
       IN  /\ lastCall' = [lastCall EXCEPT
                               !.events = Append(@, <<"error", code>>),
                               !.promise = after,
                               !.settlements = IF after = lastCall.promise THEN @ ELSE @ + 1]
           /\ tasks' = Resume(tasks, lastCall.id, lastCall.invoker, lastCall.promise, after)
    /\ UNCHANGED pipelineVars

\* on('close'), once.
ChildClose(code) ==
    /\ ChildObserved
    /\ ~lastCall.closed
    /\ Len(lastCall.events) < MaxEvents
    /\ LET after == Settle(lastCall.promise,
                           CloseOutcome(lastCall.invoker, lastCall.stderr, code))
       IN  /\ lastCall' = [lastCall EXCEPT
                               !.events = Append(@, <<"close", code>>),
                               !.closed = TRUE,
                               !.promise = after,
                               !.settlements = IF after = lastCall.promise THEN @ ELSE @ + 1]
           /\ tasks' = Resume(tasks, lastCall.id, lastCall.invoker, lastCall.promise, after)
    /\ UNCHANGED pipelineVars

NextChild ==
    \/ \E id \in TaskIds, invoker \in ChildInvokers, path \in ExecutablePaths :
           SpawnChild(id, invoker, path)
    \/ \E chunk \in ChildChunks : ChildStderr(chunk)
    \/ \E code \in SpawnErrorCodes : ChildError(code)
    \/ \E code \in ChildExitCodes : ChildClose(code)

ChildSpec == InitStore /\ [][NextChild]_vars

\* The first piece of the not-found message of each invoker.
NotFoundOpenings ==
    [soffice |-> "LibreOffice executable not found at \"",
     pandoc |-> "Failed to launch Pandoc at \"",
     markitdown |-> "Markitdown executable not found at \""]

\* The first piece of the exit-code message of each invoker.
ExitOpenings ==
    [soffice |-> "LibreOffice exited with code ",
     pandoc |-> "Pandoc exited with code ",
     markitdown |-> "markitdown exited with code "]

\* C36: for each of the three invokers and every sequence of stderr-data,
\* error and close events, the promise settles exactly once, at the first
\* error or close event, and later events change neither it nor the
\* task: ENOENT first leaves the not-found message even when a close with
\* a non-zero or null code follows, and the invocation succeeds only when
\* the first of these events is a close with code 0.
C36_SettlesExactlyOnce ==
    ChildObserved =>
        LET id == lastCall.id
            promise == lastCall.promise
            stored == tasks[id]
        IN  /\ lastCall.settlements = IF SettlingEvents = {} THEN 0 ELSE 1
            /\ SettlingEvents = {} =>
                   promise.state = "pending" /\ stored.status = "processing"
            /\ SettlingEvents # {} =>
                   LET e == lastCall.events[FirstSettling]
                   IN  /\ promise.state = "resolved" <=> (e[1] = "close" /\ e[2] = 0)
                       /\ promise.state = "rejected" <=> ~(e[1] = "close" /\ e[2] = 0)
                       /\ (e[1] = "error" /\ e[2] = "ENOENT") =>
                              /\ Len(promise.reason) = 3
                              /\ promise.reason[1] = NotFoundOpenings[lastCall.invoker]
                              /\ promise.reason[2] = lastCall.path
                       /\ (e[1] = "error" /\ e[2] # "ENOENT") =>
                              promise.reason = <<"spawn ", lastCall.path, " ", e[2]>>
                       /\ (e[1] = "close" /\ e[2] # 0) =>
                              LET text == IF lastCall.invoker = "soffice"
                                          THEN TrimText(StderrBefore(FirstSettling))
                                          ELSE StderrBefore(FirstSettling)
                              IN  promise.reason =
                                      IF text # <<>> THEN text
                                      ELSE <<ExitOpenings[lastCall.invoker], CodeText(e[2])>>
                       /\ promise.state = "rejected" =>
                              stored.status = "failed" /\ stored.error = promise.reason
                       /\ promise.state = "resolved" =>
                              /\ "error" \notin DOMAIN stored
                              /\ stored.status = IF lastCall.invoker = "soffice"
                                                 THEN "processing" ELSE "completed"

\* The office converter was not found, and the close event that followed
\* with a null code left the not-found message in the task.
C36_Witness ==
    /\ ChildObserved
    /\ lastCall.invoker = "soffice"
    /\ Len(lastCall.events) = 2
    /\ lastCall.events[1] = <<"error", "ENOENT">>
    /\ lastCall.events[2] = <<"close", NullCode>>
    /\ lastCall.settlements = 1
    /\ tasks[lastCall.id].status = "failed"
    /\ tasks[lastCall.id].error[1] = "LibreOffice executable not found at \""

-----------------------------------------------------------------------------
(* One kind of intermediate artifact per task *)

\* Request t had a scratch directory or an intermediate file created.
HasHadScratch(t) == \E i \in OutcomesOf(t, "mkdtemp") : outcomes[t][i][2] = "fulfilled"

HasHadIntermediate(t) == OutcomesOf(t, "writeFile") # {}

\* C37: no task ever has both a scratch directory and an intermediate
\* file: a scratch directory is made only for doc, ppt or xls, the source
\* is then relabelled docx, pptx or xlsx, and the PDF branch of the source
\* preparer is not taken for it; a task makes at most one scratch
\* directory and writes at most one intermediate file.
C37_OneKindOfArtifact ==
    \A t \in TaskIds :
        /\ ~(files[t].scratch # "absent" /\ files[t].intermediate # "absent")
        /\ ~(HasHadScratch(t) /\ HasHadIntermediate(t))
        /\ HasHadScratch(t) =>
               ToLowerCase(Trim(req[t].sourceFormat)) \in {"doc", "ppt", "xls"}
        /\ local[t].legacy = "scratch" =>
               /\ EffectiveSourceFormat(t) \in {"docx", "pptx", "xlsx"}
               /\ OutcomesOf(t, "extractPdf") = {}
               /\ local[t].intermediatePath = <<>>
               /\ local[t].prep # "intermediate"
        /\ Cardinality(OutcomesOf(t, "mkdtemp")) <= 1
        /\ Cardinality(OutcomesOf(t, "writeFile")) <= 1

\* Two requests ran side by side: the doc one has its scratch directory and
\* has reached the converter with a pass-through preparation, the pdf one
\* has its intermediate file and never had a scratch directory.
C37_Witness ==
    \E t, u \in TaskIds :
        /\ req[t].sourceFormat = "doc"
        /\ local[t].legacy = "scratch"
        /\ local[t].prep = "passthrough"
        /\ files[t].scratch = "present"
        /\ files[t].intermediate = "absent"
        /\ req[u].sourceFormat = "pdf"
        /\ files[u].intermediate = "present"
        /\ files[u].scratch = "absent"
        /\ ~HasHadScratch(u)

-----------------------------------------------------------------------------
(* The task records as objects: the store holds references, and so do the *)
(* callers that were handed a record                                       *)

MaxObjects == 4

\* No object, an empty Map, no reference handed out.
EmptyHeap == [op |-> "heap", objects |-> <<>>, refs |-> <<>>, handles |-> {},
              last |-> "none", id |-> 0, before |-> <<>>, beforeRefs |-> <<>>]

\* The objects as the calls so far have left them.
Heap == IF lastCall.op = "heap" THEN lastCall ELSE EmptyHeap

\* What a reader of the Map finds: each id with the object its reference
\* leads to.
StoreView(objects, refs) == [id \in DOMAIN refs |-> objects[refs[id]]]

\* A reference handed to a caller, with the fields the caller saw.
Handle(objects, ref, from) == [ref |-> ref, seen |-> objects[ref], from |-> from]

\* createTask: a new object, this.tasks.set(payload.id, task), return task.
createTaskObject(h, payload) ==
    LET objects == Append(h.objects,
                          [status |-> "pending", createdAt |-> now, updatedAt |-> now]
                              @@ payload)
        ref == Len(objects)
    IN  [objects |-> objects, refs |-> (payload.id :> ref) @@ h.refs, result |-> ref]

\* An updateStatus that assigns the fields of the stored object.
updateStatusObject_InPlace(h, id, status, updates) ==
    [objects |-> [h.objects EXCEPT ![h.refs[id]] =
                      [status |-> status, updatedAt |-> now] @@ updates @@ @],
     refs |-> h.refs, result |-> h.refs[id]]

\* updateStatus for a known id: nextTask is a new object built from the
\* stored one, this.tasks.set(id, nextTask), return nextTask.
updateStatusObject(h, id, status, updates) ==
    LET objects == Append(h.objects,
                          [status |-> status, updatedAt |-> now] @@ updates
                              @@ h.objects[h.refs[id]])
        ref == Len(objects)
    IN  [objects |-> objects, refs |-> (id :> ref) @@ h.refs, result |-> ref]

\* processTask's effectiveTask: a copy of the record it was given with the
\* prepared path and format, held by the pipeline alone.
effectiveTaskObject(h, ref) ==
    [objects |-> Append(h.objects,
                        [sourcePath |-> ConvertedPath(mkdtemp(h.objects[ref].id), "docx"),
                         sourceFormat |-> "docx"] @@ h.objects[ref]),
     refs |-> h.refs, result |-> Len(h.objects) + 1]

\* The state after a call that left the objects as in r and handed out
\* the references in given.
AfterCall(name, id, r, given) ==
    /\ lastCall' = [op |-> "heap", objects |-> r.objects, refs |-> r.refs,
                    handles |-> Heap.handles \cup
                                   {Handle(r.objects, ref, name) : ref \in given},
                    last |-> name, id |-> id,
                    before |-> tasks, beforeRefs |-> Heap.refs]
    /\ tasks' = StoreView(r.objects, r.refs)
    /\ UNCHANGED pipelineVars

ObjectCreateTask(id) ==
    /\ Len(Heap.objects) < MaxObjects
    /\ id \notin DOMAIN Heap.refs
    /\ \A u \in TaskIds : u < id => u \in DOMAIN Heap.refs
    /\ LET r == createTaskObject(Heap, ClientPayload(id))
       IN  AfterCall("createTask", id, r, {r.result})

ObjectSetProcessing(id) ==
    /\ Len(Heap.objects) < MaxObjects
    /\ id \in DOMAIN Heap.refs
    /\ LET r == updateStatusObject(Heap, id, "processing", <<>>)
       IN  AfterCall("setProcessing", id, r, {r.result})

ObjectAttachResult(id) ==
    /\ Len(Heap.objects) < MaxObjects
    /\ id \in DOMAIN Heap.refs
    /\ LET r == updateStatusObject(Heap, id, "completed",
                                   [outputPath |-> OutputPath(SampleFilename, id, "html")])
       IN  AfterCall("attachResult", id, r, {r.result})

ObjectAttachError(id) ==
    /\ Len(Heap.objects) < MaxObjects
    /\ id \in DOMAIN Heap.refs
    /\ LET r == updateStatusObject(Heap, id, "failed", [error |-> "some error"])
       IN  AfterCall("attachError", id, r, {r.result})

\* getTask: the stored reference itself.
ObjectGetTask(id) ==
    /\ id \in DOMAIN Heap.refs
    /\ AfterCall("getTask", id, Heap, {Heap.refs[id]})

\* processTask builds effectiveTask from the record createTask gave it.
ObjectEffectiveTask(id) ==
    /\ Len(Heap.objects) < MaxObjects
    /\ \E h \in Heap.handles :
           /\ h.from = "createTask"
           /\ h.seen.id = id
           /\ AfterCall("effectiveTask", id, effectiveTaskObject(Heap, h.ref), {})

NextObjects ==
    \E id \in TaskIds :
        \/ ObjectCreateTask(id)
        \/ ObjectSetProcessing(id)
        \/ ObjectAttachResult(id)
        \/ ObjectAttachError(id)
        \/ ObjectGetTask(id)
        \/ ObjectEffectiveTask(id)

ObjectSpec == InitStore /\ [][NextObjects]_vars

\* The transitions and what each one passes to updateStatus.
TransitionStatus ==
    [setProcessing |-> "processing", attachResult |-> "completed", attachError |-> "failed"]

\* C38: every record handed out by createTask, getTask or a transition still
\* has the fields its receiver saw, whatever was called since; a transition
\* puts a new object in the store, whose other fields are those of the one
\* it replaces, and leaves every other id's object in place; building the
\* pipeline's effective task changes no stored object.
C38_SnapshotsAreStable ==
    lastCall.op = "heap" =>
        /\ \A h \in lastCall.handles : lastCall.objects[h.ref] = h.seen
        /\ \A h \in lastCall.handles :
               h.from = "createTask" => lastCall.objects[h.ref].status = "pending"
        /\ tasks = StoreView(lastCall.objects, lastCall.refs)
        /\ lastCall.last \in DOMAIN TransitionStatus =>
               /\ lastCall.refs[lastCall.id] # lastCall.beforeRefs[lastCall.id]
               /\ \A h \in lastCall.handles :
                      h.from # lastCall.last => h.ref # lastCall.refs[lastCall.id]
               /\ tasks[lastCall.id].status = TransitionStatus[lastCall.last]
               /\ \A f \in DOMAIN lastCall.before[lastCall.id] \ {"status", "updatedAt"} :
                      tasks[lastCall.id][f] = lastCall.before[lastCall.id][f]
               /\ \A id \in DOMAIN lastCall.beforeRefs \ {lastCall.id} :
                      lastCall.refs[id] = lastCall.beforeRefs[id]
               /\ tasks = CASE lastCall.last = "setProcessing" ->
                                  setProcessing(lastCall.before, lastCall.id)
                             [] lastCall.last = "attachResult" ->
                                  attachResult(lastCall.before, lastCall.id,
                                               OutputPath(SampleFilename, lastCall.id, "html"))
                             [] OTHER ->
                                  attachError(lastCall.before, lastCall.id, "some error")
        /\ lastCall.last \in {"getTask", "effectiveTask"} =>
               /\ lastCall.refs = lastCall.beforeRefs
               /\ tasks = lastCall.before

\* The record createTask returned is still pending in its holder's hands
\* after the store's record went to processing and then to completed, and
\* the holder of the processing record still sees processing.
C38_Witness ==
    /\ lastCall.op = "heap"
    /\ lastCall.last = "attachResult"
    /\ tasks[lastCall.id].status = "completed"
    /\ \E h, g \in lastCall.handles :
           /\ h.from = "createTask"
           /\ h.seen.id = lastCall.id
           /\ lastCall.objects[h.ref].status = "pending"
           /\ g.from = "setProcessing"
           /\ g.seen.id = lastCall.id
           /\ lastCall.objects[g.ref].status = "processing"

====
